---------------------------- MODULE Spec2Model ----------------------------
(***************************************************************************)
(* Model of cli/chessmata/websocket.py: the RFC 6455 client                *)
(* (SimpleWebSocket) and its frame encoding / decoding.                    *)
(*                                                                         *)
(*   SpecCodec  the frame codec alone: _send_frame's frame construction    *)
(*              and the decode step of _receive_loop applied to byte       *)
(*              buffers of every length class.                             *)
(*   Spec       one SimpleWebSocket object used by caller threads          *)
(*              (connect, send, close), its receive threads, and the peer. *)
(***************************************************************************)
EXTENDS Integers, Sequences, FiniteSets, TLC

(***************************************************************************)
(* Bytes and bit operations (Python's &, |, ^ on ints 0..255).             *)
(***************************************************************************)
RECURSIVE BitAnd(_, _)
BitAnd(a, b) ==
    IF a = 0 \/ b = 0 THEN 0
    ELSE (IF a % 2 = 1 /\ b % 2 = 1 THEN 1 ELSE 0) + 2 * BitAnd(a \div 2, b \div 2)

RECURSIVE BitOr(_, _)
BitOr(a, b) ==
    IF a = 0 THEN b
    ELSE IF b = 0 THEN a
    ELSE (IF a % 2 = 1 \/ b % 2 = 1 THEN 1 ELSE 0) + 2 * BitOr(a \div 2, b \div 2)

RECURSIVE BitXor(_, _)
BitXor(a, b) ==
    IF a = 0 THEN b
    ELSE IF b = 0 THEN a
    ELSE ((a + b) % 2) + 2 * BitXor(a \div 2, b \div 2)

\* int.to_bytes(w, 'big')
RECURSIVE ToBytes(_, _)
ToBytes(n, w) ==
    IF w = 0 THEN <<>> ELSE Append(ToBytes(n \div 256, w - 1), n % 256)

\* int.from_bytes(s, 'big')
RECURSIVE FromBytes(_)
FromBytes(s) ==
    IF Len(s) = 0 THEN 0
    ELSE 256 * FromBytes(SubSeq(s, 1, Len(s) - 1)) + s[Len(s)]

\* s[lo:hi] of a bytes object: the bounds are clamped to the length
Slice(s, lo, hi) == SubSeq(s, lo + 1, IF hi > Len(s) THEN Len(s) ELSE hi)

\* s[k:]
Drop(s, k) == SubSeq(s, k + 1, Len(s))

\* s[:k]
Take(s, k) == Slice(s, 0, k)

(***************************************************************************)
(* Opcodes and header bits.                                                *)
(***************************************************************************)
OP_TEXT  == 1
OP_CLOSE == 8
OP_PING  == 9
OP_PONG  == 10
FIN_BIT  == 128
MASK_BIT == 128

(***************************************************************************)
(* _send_frame: the bytes of one client frame.                             *)
(***************************************************************************)
\* lines 135-142: the second header byte and the extended length
LengthHeaderOffByOne(length) ==
    IF length < 125 THEN <<BitOr(MASK_BIT, length)>>
    ELSE IF length < 65535 THEN <<BitOr(MASK_BIT, 126)>> \o ToBytes(length, 2)
    ELSE <<BitOr(MASK_BIT, 127)>> \o ToBytes(length, 8)

LengthHeader(length) ==
    IF length <= 125 THEN <<BitOr(MASK_BIT, length)>>
    ELSE IF length <= 65535 THEN <<BitOr(MASK_BIT, 126)>> \o ToBytes(length, 2)
    ELSE <<BitOr(MASK_BIT, 127)>> \o ToBytes(length, 8)

\* lines 149-150: byte ^ mask[i % 4]
MaskPayloadShifted(data, mask) ==
    [i \in 1..Len(data) |-> BitXor(data[i], mask[(i % 4) + 1])]

MaskPayload(data, mask) ==
    [i \in 1..Len(data) |-> BitXor(data[i], mask[((i - 1) % 4) + 1])]

\* lines 126-150 with the payload appended as given, not XORed
BuildFramePlain(data, opcode, mask) ==
    <<BitOr(FIN_BIT, opcode)>> \o LengthHeader(Len(data)) \o mask \o data

\* lines 126-150: header byte, length, mask key, masked payload
BuildFrame(data, opcode, mask) ==
    <<BitOr(FIN_BIT, opcode)>> \o LengthHeader(Len(data)) \o mask
        \o MaskPayload(data, mask)

(***************************************************************************)
(* _receive_loop, lines 169-209: one pass of the inner while loop over the *)
(* receive buffer.  "need" is the loop's break (or its not being entered): *)
(* nothing is consumed.                                                    *)
(***************************************************************************)
NeedMoreData(buffer) ==
    [kind |-> "need", opcode |-> 0, masked |-> FALSE, payload_len |-> 0,
     consumed |-> 0, payload |-> <<>>, rest |-> buffer]

\* lines 201-207: the payload, unmasked when the mask bit is set
ExtractPayload(buffer, masked, header_len, total_len) ==
    IF masked
    THEN LET mask == Slice(buffer, header_len - 4, header_len)
             body == Slice(buffer, header_len, total_len)
         IN  [i \in 1..Len(body) |-> BitXor(body[i], mask[((i - 1) % 4) + 1])]
    ELSE Slice(buffer, header_len, total_len)

\* line 209 with the whole buffer thrown away
RemainderCleared(buffer, total_len) == <<>>

\* line 209: buffer = buffer[total_len:]
Remainder(buffer, total_len) == Drop(buffer, total_len)

\* line 197 with the comparison weakened: a frame is taken one byte early
FrameCompleteEarly(buffer, total_len) == Len(buffer) + 1 >= total_len

\* line 197: if len(buffer) < total_len: break
FrameComplete(buffer, total_len) == Len(buffer) >= total_len

DecodeStep(buffer) ==
    IF Len(buffer) < 2 THEN NeedMoreData(buffer)
    ELSE
      LET first_byte  == buffer[1]
          opcode      == BitAnd(first_byte, 15)
          second_byte == buffer[2]
          masked      == BitAnd(second_byte, 128) # 0
          len7        == BitAnd(second_byte, 127)
      IN  IF len7 = 126 /\ Len(buffer) < 4 THEN NeedMoreData(buffer)
          ELSE IF len7 = 127 /\ Len(buffer) < 10 THEN NeedMoreData(buffer)
          ELSE
            LET payload_len == IF len7 = 126 THEN FromBytes(Slice(buffer, 2, 4))
                               ELSE IF len7 = 127 THEN FromBytes(Slice(buffer, 2, 10))
                               ELSE len7
                header_len  == (IF len7 = 126 THEN 4 ELSE IF len7 = 127 THEN 10 ELSE 2)
                               + (IF masked THEN 4 ELSE 0)
                total_len   == header_len + payload_len
            IN  IF ~FrameComplete(buffer, total_len) THEN NeedMoreData(buffer)
                ELSE [kind |-> "frame", opcode |-> opcode, masked |-> masked,
                      payload_len |-> payload_len, consumed |-> total_len,
                      payload |-> ExtractPayload(buffer, masked, header_len, total_len),
                      rest |-> Remainder(buffer, total_len)]

\* lines 211-220 with the ping branch missing and a ping handled as text
FrameActionPingAsText(res) ==
    IF res.kind = "need" THEN "break"
    ELSE IF res.opcode = OP_TEXT \/ res.opcode = OP_PING THEN "message"
    ELSE IF res.opcode = OP_CLOSE THEN "close"
    ELSE "ignore"

\* lines 211-220 with the close branch missing
FrameActionCloseSkipped(res) ==
    IF res.kind = "need" THEN "break"
    ELSE IF res.opcode = OP_TEXT THEN "message"
    ELSE IF res.opcode = OP_PING THEN "pong"
    ELSE "ignore"

\* lines 211-220 with a pong handled as text
FrameActionPongAsText(res) ==
    IF res.kind = "need" THEN "break"
    ELSE IF res.opcode = OP_TEXT \/ res.opcode = OP_PONG THEN "message"
    ELSE IF res.opcode = OP_CLOSE THEN "close"
    ELSE IF res.opcode = OP_PING THEN "pong"
    ELSE "ignore"

\* lines 211-220: what the loop does with the outcome of one pass
FrameAction(res) ==
    IF res.kind = "need" THEN "break"
    ELSE IF res.opcode = OP_TEXT THEN "message"
    ELSE IF res.opcode = OP_CLOSE THEN "close"
    ELSE IF res.opcode = OP_PING THEN "pong"
    ELSE "ignore"

(***************************************************************************)
(* Frames of the peer (RFC 6455 wire format, never masked).                *)
(***************************************************************************)
ServerLength(length) ==
    IF length <= 125 THEN <<length>>
    ELSE IF length <= 65535 THEN <<126>> \o ToBytes(length, 2)
    ELSE <<127>> \o ToBytes(length, 8)

ServerFrame(fin, opcode, payload) ==
    <<(IF fin THEN FIN_BIT ELSE 0) + opcode>> \o ServerLength(Len(payload)) \o payload

(***************************************************************************)
(* Inputs of the codec harness.                                            *)
(***************************************************************************)
\* prefixes of at most MaxHeadCut bytes and prefixes missing at most
\* MaxTailCut bytes are fed for every frame (all prefixes of a short frame)
MaxHeadCut == 15
MaxTailCut == 2
\* longest prefix of a following frame put behind a complete frame
MaxTrail == 3

\* the four length classes with both sides of each boundary
PayloadLens == {0, 1, 2, 125, 126, 127, 65535, 65536}
Patterns == {<<97>>, <<255, 0, 128, 10, 126>>}
MaskKeys == {<<0, 0, 0, 0>>, <<18, 52, 86, 120>>, <<255, 128, 1, 126>>}

Payload(n, pat) == SubSeq([i \in 1..n |-> pat[((i - 1) % Len(pat)) + 1]], 1, n)

\* the long payloads are taken with one pattern and one mask key
CodecInputs ==
    {<<n, pat, mask>> \in PayloadLens \X Patterns \X MaskKeys :
        n > 127 => (pat = <<255, 0, 128, 10, 126>> /\ mask = <<18, 52, 86, 120>>)}

CutPoints(frame) ==
    {k \in 0..Len(frame) : k <= MaxHeadCut \/ k >= Len(frame) - MaxTailCut}

FollowingFrames ==
    {ServerFrame(TRUE, OP_TEXT, <<97, 98>>),
     ServerFrame(TRUE, OP_PING, Payload(126, <<97>>)),
     BuildFrame(<<97, 98>>, OP_TEXT, <<18, 52, 86, 120>>)}

Trails ==
    {Take(x[1], x[2]) :
        x \in {y \in FollowingFrames \X (1..MaxTrail) : y[2] < Len(y[1])}}

(***************************************************************************)
(* State of one SimpleWebSocket object, its sockets and its threads.       *)
(***************************************************************************)
MaxSockets == 1      \* sockets connect() creates in one behaviour
MaxBurst == 2        \* frames of the peer that arrive between two reads
MaxPartial == 1      \* longest first part of a frame sendall writes alone
MaxRecvPart == 1     \* longest chunk recv returns short of all that is there
MaxWire == 2         \* frames begun on a socket while a sendall is unfinished

Callers == {1, 2}
Sockets == 1..MaxSockets
\* a writer is a thread inside _send_frame: a caller, or the receive thread
\* of the socket whose connect() started it
CallerW(c) == <<"caller", c>>
LoopW(l) == <<"loop", l>>
Writers == {CallerW(c) : c \in Callers} \cup {LoopW(l) : l \in Sockets}

VARIABLES
    sock,       \* self._socket: 0 is None, else a socket
    connected,  \* self._connected
    stop,       \* self._stop_event
    nsock,      \* sockets created so far
    sstate,     \* per socket: "unused", "open", "closed" (socket.close() called)
    closes,     \* per socket: how many times socket.close() was called on it
    peer,       \* per socket: "none", "http" (no 101 sent), "ws", "eof"
                \* (its end is closed), "gone" (the connection is broken)
    inbox,      \* per socket: bytes that have arrived and recv has not returned yet
    wire,       \* per socket: the pieces sendall has written since the socket
                \* was last between two frames
    wr,         \* per writer: the sendall in progress
    pc,         \* per caller: where it is in connect / send / close
    arg,        \* per caller: the text of the send() in progress
    ret,        \* per caller: its last call and how it ended
    wasOpen,    \* per caller: self._connected when its close() was called
    lpc,        \* per receive thread: where it is in _receive_loop
    lbuf,       \* per receive thread: its local buffer
    delivered   \* per receive thread: the on_message calls of its last recv

connVars == <<sock, connected, stop, nsock, sstate, closes, peer, inbox, wire,
              wr, pc, arg, ret, wasOpen, lpc, lbuf, delivered>>

\* a piece of a frame on the wire, with the call of _send_frame it is from
Piece(w, by, opcode, data, mask, frame, open, bytes, first) ==
    [w |-> w, by |-> by, opcode |-> opcode, data |-> data, mask |-> mask,
     frame |-> frame, open |-> open, bytes |-> bytes, first |-> first]

NoPiece == Piece(<<"none", 0>>, "none", 0, <<>>, <<>>, <<>>, FALSE, <<>>, FALSE)
NoWrite == [sk |-> 0, piece |-> NoPiece]
NoCall == [op |-> "none", out |-> "none"]
Ret(op, out) == [op |-> op, out |-> out]

VARIABLES
    cphase,     \* "start", "encoded", "fed", "decoded"
    cside,      \* who built the frame: "client" (masked) or "server"
    cdata,      \* the payload given to the encoder
    copcode,    \* the opcode given to the encoder
    cmask,      \* the mask key drawn by os.urandom(4)
    cframe,     \* the encoded frame
    ccut,       \* how many bytes of the frame were put in the buffer
    ctrail,     \* bytes of a following frame put behind the frame
    cbuf,       \* the receive buffer
    cres,       \* outcome of the last pass of the decode loop
    cframes,    \* frames extracted from this buffer so far
    cpasses     \* passes of the decode loop over this buffer so far

codecVars == <<cphase, cside, cdata, copcode, cmask, cframe, ccut, ctrail,
               cbuf, cres, cframes, cpasses>>

VARIABLES
    hphase,     \* "start", "reading", "failed", "open", "recv", "decode", "idle"
    hreply,     \* the HTTP response the server sends
    hextra,     \* the bytes the server sends behind the response
    hcloses,    \* whether the server closes its end behind these bytes
    hstream,    \* the bytes sent and not yet returned by recv
    hresponse,  \* response, line 78, as accumulated by line 83
    hchunk,     \* the chunk of the last recv
    hout,       \* how connect() ended
    hbuf,       \* buffer of _receive_loop
    hdelivered  \* the on_message calls

hsVars == <<hphase, hreply, hextra, hcloses, hstream, hresponse, hchunk, hout,
            hbuf, hdelivered>>

VARIABLES
    bphase,     \* "start", "top", "recv", "decode", "exit", "done"
    bsent,      \* the frames the server sends, as <<fin, opcode, payload>>
    bstream,    \* their bytes that have arrived and are not read yet
    blater,     \* their bytes that arrive after the first read
    bconnected, \* self._connected
    bbuf,       \* buffer of _receive_loop
    breads,     \* the recv calls that returned bytes
    bidle,      \* the last recv raised socket.timeout
    bcalls,     \* the on_message calls of the receive thread
    bhandled,   \* the callbacks GameWebSocket._handle_message made, by name
    bpongs,     \* the payloads of the pong frames written
    bcause,     \* why the thread left its loop
    bmark,      \* number of callbacks made when the read failed
    bframes,    \* the frames the inner loop has taken out of the buffer
    bevents,    \* the on_message calls and the pongs written, in order
    bfirst      \* the first frame whose handling raised, and what it raised

burstVars == <<bphase, bsent, bstream, blater, bconnected, bbuf, breads, bidle,
               bcalls, bhandled, bpongs, bcause, bmark, bframes, bevents,
               bfirst>>

VARIABLES
    dphase,      \* "start", "called", "returned"
    dmessage,    \* the message handed to _handle_message
    dregistered, \* the callbacks given to GameWebSocket.__init__
    dcalls,      \* the callbacks _handle_message made, with their argument
    dexc         \* the exception _handle_message raised, or "none"

dispVars == <<dphase, dmessage, dregistered, dcalls, dexc>>

MaxConnects == 2     \* connect() calls on one SimpleWebSocket

LifeThreads == 1..MaxConnects

VARIABLES
    lsock,       \* self._socket: 0 for None, else the number of the socket
    lconnected,  \* self._connected
    lstop,       \* self._stop_event
    lnsock,      \* sockets created so far
    lclosed,     \* the sockets on which close() was called
    lcaller,     \* where the calling thread is
    llast,       \* the call of the calling thread that returned last
    lowner,      \* the socket of the connect() that set self._connected last
    lthr         \* per receive thread: where it is and the socket it reads
                 \* or failed to read

lifeVars == <<lsock, lconnected, lstop, lnsock, lclosed, lcaller, llast,
              lowner, lthr>>

VARIABLES
    wphase,      \* "start", "reading", "returned", "raised"
    wseen,       \* b'\r\n\r\n' in response
    wtail,       \* the last bytes of response, at most three
    wout         \* how connect() ended

waitVars == <<wphase, wseen, wtail, wout>>

VARIABLES
    gphase,      \* where InteractiveGame.start() is
    gws,         \* self._ws is set
    gwarned,     \* the warning of _connect_websocket was printed
    gexc         \* the exception that left start(), or "none"

gameVars == <<gphase, gws, gwarned, gexc>>

MaxObjects == 2      \* SimpleWebSocket objects one GameWebSocket creates
Objects == 1..MaxObjects

VARIABLES
    kws,         \* GameWebSocket._ws: 0 for None, or the object it holds
    kn,          \* the SimpleWebSocket objects created so far
    kobj,        \* per object: _connected, _stop_event, its socket ("none"
                 \* for self._socket = None, "open", "closed") and its thread
    kcaller,     \* where the calling thread is
    klast        \* how its last call ended

statusVars == <<kws, kn, kobj, kcaller, klast>>

restVars == <<dispVars, lifeVars, waitVars, gameVars, statusVars>>

\* __init__, lines 27-33, and the harnesses before their first input
Init ==
    /\ sock = 0
    /\ connected = FALSE
    /\ stop = FALSE
    /\ nsock = 0
    /\ sstate = [s \in Sockets |-> "unused"]
    /\ closes = [s \in Sockets |-> 0]
    /\ peer = [s \in Sockets |-> "none"]
    /\ inbox = [s \in Sockets |-> <<>>]
    /\ wire = [s \in Sockets |-> <<>>]
    /\ wr = [w \in Writers |-> NoWrite]
    /\ pc = [c \in Callers |-> "idle"]
    /\ arg = [c \in Callers |-> <<>>]
    /\ ret = [c \in Callers |-> NoCall]
    /\ wasOpen = [c \in Callers |-> FALSE]
    /\ lpc = [l \in Sockets |-> "off"]
    /\ lbuf = [l \in Sockets |-> <<>>]
    /\ delivered = [l \in Sockets |-> <<>>]
    /\ cphase = "start"
    /\ cside = "none"
    /\ cdata = <<>>
    /\ copcode = 0
    /\ cmask = <<>>
    /\ cframe = <<>>
    /\ ccut = 0
    /\ ctrail = <<>>
    /\ cbuf = <<>>
    /\ cres = NeedMoreData(<<>>)
    /\ cframes = 0
    /\ cpasses = 0
    /\ hphase = "start"
    /\ hreply = <<>>
    /\ hextra = <<>>
    /\ hcloses = FALSE
    /\ hstream = <<>>
    /\ hresponse = <<>>
    /\ hchunk = <<>>
    /\ hout = "none"
    /\ hbuf = <<>>
    /\ hdelivered = <<>>
    /\ bphase = "start"
    /\ bsent = <<>>
    /\ bstream = <<>>
    /\ blater = <<>>
    /\ bconnected = FALSE
    /\ bbuf = <<>>
    /\ breads = 0
    /\ bidle = FALSE
    /\ bcalls = <<>>
    /\ bhandled = <<>>
    /\ bpongs = <<>>
    /\ bcause = "none"
    /\ bmark = 0
    /\ bframes = 0
    /\ bevents = <<>>
    /\ bfirst = [at |-> 0, cause |-> "none"]
    /\ dphase = "start"
    /\ dmessage = <<>>
    /\ dregistered = {}
    /\ dcalls = <<>>
    /\ dexc = "none"
    /\ lsock = 0
    /\ lconnected = FALSE
    /\ lstop = FALSE
    /\ lnsock = 0
    /\ lclosed = {}
    /\ lcaller = "idle"
    /\ llast = "none"
    /\ lowner = 0
    /\ lthr = [t \in LifeThreads |-> [pc |-> "off", rd |-> 0]]
    /\ wphase = "start"
    /\ wseen = FALSE
    /\ wtail = <<>>
    /\ wout = "none"
    /\ gphase = "init"
    /\ gws = FALSE
    /\ gwarned = FALSE
    /\ gexc = "none"
    /\ kws = 0
    /\ kn = 0
    /\ kobj = [o \in Objects |->
                [connected |-> FALSE, stop |-> FALSE, sock |-> "none",
                 thr |-> "off"]]
    /\ kcaller = "idle"
    /\ klast = "none"

\* _send_frame(data, opcode) as called by send (0x1), the ping reply (0xA)
\* and close (0x8, empty data)
CodecEncode ==
    /\ cphase = "start"
    /\ \E inp \in CodecInputs, op \in {OP_TEXT, OP_PONG, OP_CLOSE} :
        /\ op = OP_CLOSE => inp[1] = 0
        /\ op = OP_PONG => inp[1] <= 125
        /\ cdata' = Payload(inp[1], inp[2])
        /\ copcode' = op
        /\ cmask' = inp[3]
        /\ cframe' = BuildFrame(Payload(inp[1], inp[2]), op, inp[3])
    /\ cside' = "client"
    /\ cphase' = "encoded"
    /\ UNCHANGED <<ccut, ctrail, cbuf, cres, cframes, cpasses>>
    /\ UNCHANGED <<connVars, hsVars, burstVars, restVars>>

\* a frame as the peer sends it
CodecServerFrame ==
    /\ cphase = "start"
    /\ \E inp \in CodecInputs, op \in {OP_TEXT, OP_PING} :
        /\ op = OP_PING => inp[1] <= 125
        /\ cdata' = Payload(inp[1], inp[2])
        /\ copcode' = op
        /\ cframe' = ServerFrame(TRUE, op, Payload(inp[1], inp[2]))
    /\ cmask' = <<>>
    /\ cside' = "server"
    /\ cphase' = "encoded"
    /\ UNCHANGED <<ccut, ctrail, cbuf, cres, cframes, cpasses>>
    /\ UNCHANGED <<connVars, hsVars, burstVars, restVars>>

\* line 166: buffer += chunk, the chunk ending inside the frame
CodecFeedPrefix ==
    /\ cphase = "encoded"
    /\ \E k \in CutPoints(cframe) :
        /\ k < Len(cframe)
        /\ ccut' = k
        /\ cbuf' = Take(cframe, k)
    /\ ctrail' = <<>>
    /\ cphase' = "fed"
    /\ UNCHANGED <<cside, cdata, copcode, cmask, cframe, cres, cframes, cpasses>>
    /\ UNCHANGED <<connVars, hsVars, burstVars, restVars>>

\* line 166: buffer += chunk, the chunk ending at or behind the frame's end
CodecFeedFull ==
    /\ cphase = "encoded"
    /\ \E t \in Trails \cup {<<>>} :
        /\ ctrail' = t
        /\ cbuf' = cframe \o t
    /\ ccut' = Len(cframe)
    /\ cphase' = "fed"
    /\ UNCHANGED <<cside, cdata, copcode, cmask, cframe, cres, cframes, cpasses>>
    /\ UNCHANGED <<connVars, hsVars, burstVars, restVars>>

\* lines 169-209: one pass of the inner loop; it goes on after a frame
CodecDecode ==
    /\ \/ cphase = "fed"
       \/ cphase = "decoded" /\ cres.kind = "frame"
    /\ LET res == DecodeStep(cbuf)
       IN  /\ cres' = res
           /\ cbuf' = res.rest
           /\ cframes' = cframes + (IF res.kind = "frame" THEN 1 ELSE 0)
    /\ cpasses' = cpasses + 1
    /\ cphase' = "decoded"
    /\ UNCHANGED <<cside, cdata, copcode, cmask, cframe, ccut, ctrail>>
    /\ UNCHANGED <<connVars, hsVars, burstVars, restVars>>

CodecNext ==
    \/ CodecEncode
    \/ CodecServerFrame
    \/ CodecFeedPrefix
    \/ CodecFeedFull
    \/ CodecDecode

vars == <<connVars, codecVars, hsVars, burstVars, restVars>>

SpecCodec == Init /\ [][CodecNext]_vars

(***************************************************************************)
(* The SimpleWebSocket object in use.                                      *)
(*                                                                         *)
(* Environment: caller 1 is the thread that calls connect(); connect() is  *)
(* called on an object that is not connected, and not concurrently with    *)
(* close().  The peer sends frames once it has answered 101 and may close  *)
(* its end; what it has sent and whether it is gone is decided when the    *)
(* client reads or writes.                                                 *)
(***************************************************************************)
Texts == {<<104, 105>>}
WireMasks == {<<18, 52, 86, 120>>, <<0, 255, 0, 1>>}
PeerFrames ==
    {ServerFrame(TRUE, OP_TEXT, <<111, 107>>),
     ServerFrame(TRUE, OP_PING, <<112>>),
     ServerFrame(TRUE, OP_PONG, <<>>),
     ServerFrame(TRUE, OP_CLOSE, <<>>)}
\* recv(4096), line 161
RecvSize == 4096

InConnect(c) == pc[c] \in {"c_hs", "c_flag", "c_start"}
InSend(c) == pc[c] \in {"s_frame", "s_rest"}
InClose(c) == pc[c] \in {"k_chk", "k_frame", "k_rest", "k_close", "k_none"}

\* the writers whose sendall on socket s is unfinished
Pending(s) == {w \in Writers : wr[w].sk = s}

\* sendall may put a frame on the socket in one piece or in two
FirstParts(bytes) == {Len(bytes)} \cup {k \in 1..MaxPartial : k < Len(bytes)}

\* _send_frame, lines 126-152, up to the first bytes sendall writes.
\* out: "done", "partial" (sendall has more to write), "AttributeError"
\* (self._socket is None), "OSError" (the socket is closed, or the
\* connection is broken and the write fails)
WriteStart(w, by, opcode, data, open, out) ==
    \/ /\ sock = 0
       /\ out = "AttributeError"
       /\ UNCHANGED <<wire, wr, peer>>
    \/ /\ sock # 0
       /\ sstate[sock] = "closed"
       /\ out = "OSError"
       /\ UNCHANGED <<wire, wr, peer>>
    \/ /\ sock # 0
       /\ sstate[sock] = "open"
       /\ out = "OSError"
       /\ peer' = [peer EXCEPT ![sock] = "gone"]
       /\ UNCHANGED <<wire, wr>>
    \/ /\ sock # 0
       /\ sstate[sock] = "open"
       /\ peer[sock] # "gone"
       /\ Pending(sock) = {} \/ Len(wire[sock]) < MaxWire
       /\ UNCHANGED peer
       /\ \E mask \in WireMasks :
            LET frame == BuildFrame(data, opcode, mask)
            IN  \E k \in FirstParts(frame) :
                  /\ wire' = [wire EXCEPT ![sock] =
                                (IF Pending(sock) = {} THEN <<>> ELSE @) \o
                                <<Piece(w, by, opcode, data, mask, frame, open,
                                        Take(frame, k), TRUE)>>]
                  /\ IF k = Len(frame)
                     THEN out = "done" /\ UNCHANGED wr
                     ELSE /\ out = "partial"
                          /\ wr' = [wr EXCEPT ![w] =
                                      [sk |-> sock,
                                       piece |-> Piece(w, by, opcode, data, mask,
                                                       frame, open, Drop(frame, k),
                                                       FALSE)]]

\* line 152: sendall writing the rest of the frame on the socket it started on
WriteRest(w, out) ==
    LET sk == wr[w].sk
    IN  /\ wr' = [wr EXCEPT ![w] = NoWrite]
        /\ \/ /\ sstate[sk] = "closed"
              /\ out = "OSError"
              /\ UNCHANGED <<wire, peer>>
           \/ /\ sstate[sk] = "open"
              /\ out = "OSError"
              /\ peer' = [peer EXCEPT ![sk] = "gone"]
              /\ UNCHANGED wire
           \/ /\ sstate[sk] = "open"
              /\ peer[sk] # "gone"
              /\ out = "done"
              /\ UNCHANGED peer
              /\ wire' = [wire EXCEPT ![sk] = Append(@, wr[w].piece)]

WriteOutcomes == {"done", "partial", "AttributeError", "OSError"}

(***************************************************************************)
(* connect(), lines 35-95.                                                 *)
(***************************************************************************)
\* lines 45-57: the socket is created and connected, and stored in
\* self._socket before the handshake
ConnectCall(c) ==
    /\ c = 1
    /\ pc[c] = "idle"
    /\ nsock < MaxSockets
    /\ ~connected
    /\ \A d \in Callers : ~InClose(d)
    /\ \/ /\ ret' = [ret EXCEPT ![c] = Ret("connect", "ConnectFailed")]
          /\ UNCHANGED <<sock, nsock, sstate, peer, pc>>
       \/ /\ nsock' = nsock + 1
          /\ sstate' = [sstate EXCEPT ![nsock + 1] = "open"]
          /\ peer' = [peer EXCEPT ![nsock + 1] = "http"]
          /\ sock' = nsock + 1
          /\ pc' = [pc EXCEPT ![c] = "c_hs"]
          /\ UNCHANGED ret
    /\ UNCHANGED <<connected, stop, closes, inbox, wire, wr, arg, wasOpen, lpc,
                   lbuf, delivered>>
    /\ UNCHANGED <<codecVars, hsVars, burstVars, restVars>>

\* lines 59-88 with line 87-88 missing: a response without 101 is accepted
ConnectHandshakeLenient(c) ==
    /\ pc[c] = "c_hs"
    /\ \/ /\ peer' = [peer EXCEPT ![nsock] = "ws"]
          /\ pc' = [pc EXCEPT ![c] = "c_flag"]
          /\ UNCHANGED ret
       \/ \* no 101 in the response
          /\ pc' = [pc EXCEPT ![c] = "c_flag"]
          /\ UNCHANGED <<ret, peer>>
       \/ \* line 82: the peer closed before the end of the headers
          /\ peer' = [peer EXCEPT ![nsock] = "eof"]
          /\ pc' = [pc EXCEPT ![c] = "idle"]
          /\ ret' = [ret EXCEPT ![c] = Ret("connect", "HandshakeFailed")]
       \/ \* line 80: recv raises socket.timeout after 30 s
          /\ pc' = [pc EXCEPT ![c] = "idle"]
          /\ ret' = [ret EXCEPT ![c] = Ret("connect", "Timeout")]
          /\ UNCHANGED peer
    /\ UNCHANGED <<sock, connected, stop, nsock, sstate, closes, inbox, wire, wr,
                   arg, wasOpen, lpc, lbuf, delivered>>
    /\ UNCHANGED <<codecVars, hsVars, burstVars, restVars>>

\* lines 59-95 with the receive thread started before the response is read
ConnectHandshakeThreadFirst(c) ==
    /\ pc[c] = "c_hs"
    /\ lpc' = [lpc EXCEPT ![nsock] = "top"]
    /\ \/ /\ peer' = [peer EXCEPT ![nsock] = "ws"]
          /\ pc' = [pc EXCEPT ![c] = "c_flag"]
          /\ UNCHANGED ret
       \/ /\ pc' = [pc EXCEPT ![c] = "idle"]
          /\ ret' = [ret EXCEPT ![c] = Ret("connect", "HandshakeFailed")]
          /\ UNCHANGED peer
       \/ /\ peer' = [peer EXCEPT ![nsock] = "eof"]
          /\ pc' = [pc EXCEPT ![c] = "idle"]
          /\ ret' = [ret EXCEPT ![c] = Ret("connect", "HandshakeFailed")]
       \/ /\ pc' = [pc EXCEPT ![c] = "idle"]
          /\ ret' = [ret EXCEPT ![c] = Ret("connect", "Timeout")]
          /\ UNCHANGED peer
    /\ UNCHANGED <<sock, connected, stop, nsock, sstate, closes, inbox, wire, wr,
                   arg, wasOpen, lbuf, delivered>>
    /\ UNCHANGED <<codecVars, hsVars, burstVars, restVars>>

\* lines 59-88: the request is sent and the response read; the socket of
\* this call is the one created last
ConnectHandshake(c) ==
    /\ pc[c] = "c_hs"
    /\ \/ /\ peer' = [peer EXCEPT ![nsock] = "ws"]
          /\ pc' = [pc EXCEPT ![c] = "c_flag"]
          /\ UNCHANGED ret
       \/ \* line 88: no 101 in the response
          /\ pc' = [pc EXCEPT ![c] = "idle"]
          /\ ret' = [ret EXCEPT ![c] = Ret("connect", "HandshakeFailed")]
          /\ UNCHANGED peer
       \/ \* line 82: the peer closed before the end of the headers
          /\ peer' = [peer EXCEPT ![nsock] = "eof"]
          /\ pc' = [pc EXCEPT ![c] = "idle"]
          /\ ret' = [ret EXCEPT ![c] = Ret("connect", "HandshakeFailed")]
       \/ \* line 80: recv raises socket.timeout after 30 s
          /\ pc' = [pc EXCEPT ![c] = "idle"]
          /\ ret' = [ret EXCEPT ![c] = Ret("connect", "Timeout")]
          /\ UNCHANGED peer
    /\ UNCHANGED <<sock, connected, stop, nsock, sstate, closes, inbox, wire, wr,
                   arg, wasOpen, lpc, lbuf, delivered>>
    /\ UNCHANGED <<codecVars, hsVars, burstVars, restVars>>

\* line 90
ConnectFlag(c) ==
    /\ pc[c] = "c_flag"
    /\ connected' = TRUE
    /\ pc' = [pc EXCEPT ![c] = "c_start"]
    /\ UNCHANGED <<sock, stop, nsock, sstate, closes, peer, inbox, wire, wr, arg,
                   ret, wasOpen, lpc, lbuf, delivered>>
    /\ UNCHANGED <<codecVars, hsVars, burstVars, restVars>>

\* lines 91-95: the stop event is cleared and the receive thread started
ConnectStart(c) ==
    /\ pc[c] = "c_start"
    /\ stop' = FALSE
    /\ lpc' = [lpc EXCEPT ![nsock] = "top"]
    /\ lbuf' = [lbuf EXCEPT ![nsock] = <<>>]
    /\ pc' = [pc EXCEPT ![c] = "idle"]
    /\ ret' = [ret EXCEPT ![c] = Ret("connect", "ok")]
    /\ UNCHANGED <<sock, connected, nsock, sstate, closes, peer, inbox, wire, wr,
                   arg, wasOpen, delivered>>
    /\ UNCHANGED <<codecVars, hsVars, burstVars, restVars>>

(***************************************************************************)
(* send(), lines 116-122.                                                  *)
(***************************************************************************)
\* line 118 with the socket tested in place of the flag
SendAllowedIfSocket == sock # 0

\* line 118: if not self._connected
SendAllowed == connected

\* send(message) up to line 119
SendCheck(c) ==
    /\ pc[c] = "idle"
    /\ IF SendAllowed
       THEN /\ \E text \in Texts : arg' = [arg EXCEPT ![c] = text]
            /\ pc' = [pc EXCEPT ![c] = "s_frame"]
            /\ UNCHANGED ret
       ELSE /\ ret' = [ret EXCEPT ![c] = Ret("send", "NotConnected")]
            /\ UNCHANGED <<pc, arg>>
    /\ UNCHANGED <<sock, connected, stop, nsock, sstate, closes, peer, inbox, wire,
                   wr, wasOpen, lpc, lbuf, delivered>>
    /\ UNCHANGED <<codecVars, hsVars, burstVars, restVars>>

\* how send() goes on after a step of _send_frame
SendThen(out, r) ==
    IF out = "partial" THEN [pc |-> "s_rest", ret |-> r]
    ELSE IF out = "done" THEN [pc |-> "idle", ret |-> Ret("send", "ok")]
    ELSE [pc |-> "idle", ret |-> Ret("send", out)]

\* lines 121-122 and _send_frame
SendFrame(c) ==
    /\ pc[c] = "s_frame"
    /\ \E out \in WriteOutcomes :
        /\ WriteStart(CallerW(c), "send", OP_TEXT, arg[c], TRUE, out)
        /\ pc' = [pc EXCEPT ![c] = SendThen(out, ret[c]).pc]
        /\ ret' = [ret EXCEPT ![c] = SendThen(out, ret[c]).ret]
    /\ UNCHANGED <<sock, connected, stop, nsock, sstate, closes, inbox, arg,
                   wasOpen, lpc, lbuf, delivered>>
    /\ UNCHANGED <<codecVars, hsVars, burstVars, restVars>>

SendRest(c) ==
    /\ pc[c] = "s_rest"
    /\ \E out \in WriteOutcomes :
        /\ WriteRest(CallerW(c), out)
        /\ pc' = [pc EXCEPT ![c] = SendThen(out, ret[c]).pc]
        /\ ret' = [ret EXCEPT ![c] = SendThen(out, ret[c]).ret]
    /\ UNCHANGED <<sock, connected, stop, nsock, sstate, closes, inbox, arg,
                   wasOpen, lpc, lbuf, delivered>>
    /\ UNCHANGED <<codecVars, hsVars, burstVars, restVars>>

(***************************************************************************)
(* close(), lines 97-114.                                                  *)
(***************************************************************************)
\* lines 99-100 with line 100 missing: the flag is left to the receive thread
CloseCallKeepsFlag(c) ==
    /\ pc[c] = "idle"
    /\ \A d \in Callers : ~InConnect(d)
    /\ wasOpen' = [wasOpen EXCEPT ![c] = connected]
    /\ stop' = TRUE
    /\ pc' = [pc EXCEPT ![c] = "k_chk"]
    /\ UNCHANGED <<sock, connected, nsock, sstate, closes, peer, inbox, wire, wr,
                   arg, ret, lpc, lbuf, delivered>>
    /\ UNCHANGED <<codecVars, hsVars, burstVars, restVars>>

\* lines 99-100
CloseCall(c) ==
    /\ pc[c] = "idle"
    /\ \A d \in Callers : ~InConnect(d)
    /\ wasOpen' = [wasOpen EXCEPT ![c] = connected]
    /\ stop' = TRUE
    /\ connected' = FALSE
    /\ pc' = [pc EXCEPT ![c] = "k_chk"]
    /\ UNCHANGED <<sock, nsock, sstate, closes, peer, inbox, wire, wr, arg, ret,
                   lpc, lbuf, delivered>>
    /\ UNCHANGED <<codecVars, hsVars, burstVars, restVars>>

\* line 102: if self._socket
CloseHasSocket(c) == sock # 0

CloseCheck(c) ==
    /\ pc[c] = "k_chk"
    /\ IF CloseHasSocket(c)
       THEN /\ pc' = [pc EXCEPT ![c] = "k_frame"]
            /\ UNCHANGED ret
       ELSE /\ pc' = [pc EXCEPT ![c] = "idle"]
            /\ ret' = [ret EXCEPT ![c] = Ret("close", "ok")]
    /\ UNCHANGED <<sock, connected, stop, nsock, sstate, closes, peer, inbox, wire,
                   wr, arg, wasOpen, lpc, lbuf, delivered>>
    /\ UNCHANGED <<codecVars, hsVars, burstVars, restVars>>

\* lines 103-107 with the except clause missing: a failed write ends close()
CloseFrameRaises(out, r) ==
    IF out = "partial" THEN [pc |-> "k_rest", ret |-> r]
    ELSE IF out = "done" THEN [pc |-> "k_close", ret |-> r]
    ELSE [pc |-> "idle", ret |-> Ret("close", out)]

\* lines 103-107: try: _send_frame(b'', 0x8) except Exception: pass
CloseFrameThen(out, r) ==
    IF out = "partial" THEN [pc |-> "k_rest", ret |-> r]
    ELSE [pc |-> "k_close", ret |-> r]

CloseFrame(c) ==
    /\ pc[c] = "k_frame"
    /\ \E out \in WriteOutcomes :
        /\ WriteStart(CallerW(c), "close", OP_CLOSE, <<>>, wasOpen[c], out)
        /\ pc' = [pc EXCEPT ![c] = CloseFrameThen(out, ret[c]).pc]
        /\ ret' = [ret EXCEPT ![c] = CloseFrameThen(out, ret[c]).ret]
    /\ UNCHANGED <<sock, connected, stop, nsock, sstate, closes, inbox, arg,
                   wasOpen, lpc, lbuf, delivered>>
    /\ UNCHANGED <<codecVars, hsVars, burstVars, restVars>>

CloseRest(c) ==
    /\ pc[c] = "k_rest"
    /\ \E out \in WriteOutcomes :
        /\ WriteRest(CallerW(c), out)
        /\ pc' = [pc EXCEPT ![c] = CloseFrameThen(out, ret[c]).pc]
        /\ ret' = [ret EXCEPT ![c] = CloseFrameThen(out, ret[c]).ret]
    /\ UNCHANGED <<sock, connected, stop, nsock, sstate, closes, inbox, arg,
                   wasOpen, lpc, lbuf, delivered>>
    /\ UNCHANGED <<codecVars, hsVars, burstVars, restVars>>

\* lines 109-112: try: self._socket.close() except Exception: pass
CloseSocket(c) ==
    /\ pc[c] = "k_close"
    /\ IF sock = 0
       THEN UNCHANGED <<sstate, closes>>
       ELSE /\ sstate' = [sstate EXCEPT ![sock] = "closed"]
            /\ closes' = [closes EXCEPT ![sock] = @ + 1]
    /\ pc' = [pc EXCEPT ![c] = "k_none"]
    /\ UNCHANGED <<sock, connected, stop, nsock, peer, inbox, wire, wr, arg, ret,
                   wasOpen, lpc, lbuf, delivered>>
    /\ UNCHANGED <<codecVars, hsVars, burstVars, restVars>>

\* line 114: self._socket = None
CloseNone(c) ==
    /\ pc[c] = "k_none"
    /\ sock' = 0
    /\ pc' = [pc EXCEPT ![c] = "idle"]
    /\ ret' = [ret EXCEPT ![c] = Ret("close", "ok")]
    /\ UNCHANGED <<connected, stop, nsock, sstate, closes, peer, inbox, wire, wr,
                   arg, wasOpen, lpc, lbuf, delivered>>
    /\ UNCHANGED <<codecVars, hsVars, burstVars, restVars>>

(***************************************************************************)
(* _receive_loop, lines 154-229.  Thread l is the one started by the       *)
(* connect() that created socket l; it reads self._socket on every use.    *)
(***************************************************************************)
\* line 158: while not self._stop_event.is_set() and self._connected
LoopTop(l) ==
    /\ lpc[l] = "top"
    /\ lpc' = [lpc EXCEPT ![l] = IF ~stop /\ connected THEN "recv" ELSE "exit"]
    /\ delivered' = [delivered EXCEPT ![l] = <<>>]
    /\ UNCHANGED <<sock, connected, stop, nsock, sstate, closes, peer, inbox, wire,
                   wr, pc, arg, ret, wasOpen, lbuf>>
    /\ UNCHANGED <<codecVars, hsVars, burstVars, restVars>>

\* runs of one to n frames of the peer
RECURSIVE FrameRuns(_)
FrameRuns(n) ==
    IF n = 0 THEN {}
    ELSE PeerFrames \cup
         {r \o f : r \in FrameRuns(n - 1), f \in PeerFrames}

PeerRuns == FrameRuns(MaxBurst)

\* what recv may find to have arrived from the peer since the last read:
\* nothing, or the next one or several frames
Arrivals(s) ==
    IF peer[s] = "ws" /\ inbox[s] = <<>> THEN {<<>>} \cup PeerRuns
    ELSE {<<>>}

\* recv(4096) returns all that is there, or a short first part of it
ChunkSizes(data) ==
    {k \in 1..Len(data) : k <= RecvSize /\ (k = Len(data) \/ k <= MaxRecvPart)}

\* lines 160-166 and 222-227: settimeout and recv on self._socket
LoopRecv(l) ==
    /\ lpc[l] = "recv"
    /\ \/ \* self._socket is None, or the socket is closed, or the connection
          \* is broken: except Exception, break
          /\ IF sock = 0 THEN TRUE
             ELSE sstate[sock] = "closed" \/ peer[sock] = "gone"
          /\ lpc' = [lpc EXCEPT ![l] = "exit"]
          /\ UNCHANGED <<inbox, lbuf, peer, delivered>>
       \/ \* the connection breaks: except Exception, break
          /\ sock # 0 /\ sstate[sock] = "open"
          /\ inbox[sock] = <<>> /\ peer[sock] # "gone"
          /\ peer' = [peer EXCEPT ![sock] = "gone"]
          /\ lpc' = [lpc EXCEPT ![l] = "exit"]
          /\ UNCHANGED <<inbox, lbuf, delivered>>
       \/ \* nothing arrives within the second: socket.timeout, continue
          /\ sock # 0 /\ sstate[sock] = "open"
          /\ inbox[sock] = <<>> /\ peer[sock] \notin {"eof", "gone"}
          /\ lpc' = [lpc EXCEPT ![l] = "top"]
          /\ UNCHANGED <<inbox, lbuf, peer, delivered>>
       \/ \* the peer has closed its end: recv returns b'', break
          /\ sock # 0 /\ sstate[sock] = "open"
          /\ inbox[sock] = <<>> /\ peer[sock] # "gone"
          /\ peer' = [peer EXCEPT ![sock] = "eof"]
          /\ lpc' = [lpc EXCEPT ![l] = "exit"]
          /\ UNCHANGED <<inbox, lbuf, delivered>>
       \/ \* a chunk of the bytes that have arrived
          /\ sock # 0 /\ sstate[sock] = "open" /\ peer[sock] # "gone"
          /\ \E new \in Arrivals(sock) :
               LET data == inbox[sock] \o new
               IN  /\ data # <<>>
                   /\ \E k \in ChunkSizes(data) :
                        /\ lbuf' = [lbuf EXCEPT ![l] = @ \o Take(data, k)]
                        /\ inbox' = [inbox EXCEPT ![sock] = Drop(data, k)]
          /\ lpc' = [lpc EXCEPT ![l] = "decode"]
          /\ UNCHANGED <<peer, delivered>>
    /\ UNCHANGED <<sock, connected, stop, nsock, sstate, closes, wire, wr, pc, arg,
                   ret, wasOpen>>
    /\ UNCHANGED <<codecVars, hsVars, burstVars, restVars>>

\* lines 169-220: one pass of the inner loop and the handling of its frame
LoopDecode(l) ==
    /\ lpc[l] = "decode"
    /\ LET res == DecodeStep(lbuf[l])
           act == FrameAction(res)
       IN  /\ lbuf' = [lbuf EXCEPT ![l] = res.rest]
           /\ \/ /\ act = "break"
                 /\ lpc' = [lpc EXCEPT ![l] = "top"]
                 /\ UNCHANGED <<connected, delivered, wire, wr, peer>>
              \/ \* lines 213-215
                 /\ act = "message"
                 /\ delivered' = [delivered EXCEPT ![l] = Append(@, res.payload)]
                 /\ UNCHANGED <<lpc, connected, wire, wr, peer>>
              \/ \* lines 217-218
                 /\ act = "close"
                 /\ connected' = FALSE
                 /\ lpc' = [lpc EXCEPT ![l] = "top"]
                 /\ UNCHANGED <<delivered, wire, wr, peer>>
              \/ \* line 220; an exception of _send_frame is caught at line 224
                 /\ act = "pong"
                 /\ \E out \in WriteOutcomes :
                       /\ WriteStart(LoopW(l), "pong", OP_PONG, res.payload, TRUE, out)
                       /\ lpc' = [lpc EXCEPT ![l] = IF out = "done" THEN "decode"
                                                    ELSE IF out = "partial" THEN "p_rest"
                                                    ELSE "exit"]
                 /\ UNCHANGED <<connected, delivered>>
              \/ /\ act = "ignore"
                 /\ UNCHANGED <<lpc, connected, delivered, wire, wr, peer>>
    /\ UNCHANGED <<sock, stop, nsock, sstate, closes, inbox, pc, arg, ret, wasOpen>>
    /\ UNCHANGED <<codecVars, hsVars, burstVars, restVars>>

\* line 220, sendall writing the rest of the pong
LoopPongRest(l) ==
    /\ lpc[l] = "p_rest"
    /\ \E out \in WriteOutcomes :
        /\ WriteRest(LoopW(l), out)
        /\ lpc' = [lpc EXCEPT ![l] = IF out = "done" THEN "decode" ELSE "exit"]
    /\ UNCHANGED <<sock, connected, stop, nsock, sstate, closes, inbox, pc, arg,
                   ret, wasOpen, lbuf, delivered>>
    /\ UNCHANGED <<codecVars, hsVars, burstVars, restVars>>

\* line 229: self._connected = False, and the thread ends with its buffer
LoopExit(l) ==
    /\ lpc[l] = "exit"
    /\ connected' = FALSE
    /\ lpc' = [lpc EXCEPT ![l] = "done"]
    /\ lbuf' = [lbuf EXCEPT ![l] = <<>>]
    /\ UNCHANGED <<sock, stop, nsock, sstate, closes, peer, inbox, wire, wr, pc,
                   arg, ret, wasOpen, delivered>>
    /\ UNCHANGED <<codecVars, hsVars, burstVars, restVars>>

\* the threads that call into the object in this specification
MainCallers == {1}

Next ==
    \/ \E c \in MainCallers : ConnectCall(c)
    \/ \E c \in MainCallers : ConnectHandshake(c)
    \/ \E c \in MainCallers : ConnectFlag(c)
    \/ \E c \in MainCallers : ConnectStart(c)
    \/ \E c \in MainCallers : SendCheck(c)
    \/ \E c \in MainCallers : SendFrame(c)
    \/ \E c \in MainCallers : SendRest(c)
    \/ \E c \in MainCallers : CloseCall(c)
    \/ \E c \in MainCallers : CloseCheck(c)
    \/ \E c \in MainCallers : CloseFrame(c)
    \/ \E c \in MainCallers : CloseRest(c)
    \/ \E c \in MainCallers : CloseSocket(c)
    \/ \E c \in MainCallers : CloseNone(c)
    \/ \E l \in Sockets : LoopTop(l)
    \/ \E l \in Sockets : LoopRecv(l)
    \/ \E l \in Sockets : LoopDecode(l)
    \/ \E l \in Sockets : LoopPongRest(l)
    \/ \E l \in Sockets : LoopExit(l)

Spec == Init /\ [][Next]_vars


(***************************************************************************)
(* send() in one thread and close() in another: caller 1 calls connect()   *)
(* and send(), caller 2 calls close(), at any time once connect() has      *)
(* returned.  The receive thread waits in recv meanwhile.                  *)
(***************************************************************************)
RaceNext ==
    \/ ConnectCall(1)
    \/ ConnectHandshake(1)
    \/ ConnectFlag(1)
    \/ ConnectStart(1)
    \/ SendCheck(1)
    \/ SendFrame(1)
    \/ SendRest(1)
    \/ CloseCall(2)
    \/ CloseCheck(2)
    \/ CloseFrame(2)
    \/ CloseRest(2)
    \/ CloseSocket(2)
    \/ CloseNone(2)

SpecRace == Init /\ [][RaceNext]_vars
(***************************************************************************)
(* connect(), lines 75-95, on the bytes of the server's answer, and the    *)
(* first reads of the receive thread behind it.                            *)
(***************************************************************************)
\* "HTTP/1.1 101 Switching Protocols\r\nUpgrade: websocket\r\n\r\n"
Reply101 ==
    <<72, 84, 84, 80, 47, 49, 46, 49, 32, 49, 48, 49, 32, 83, 119, 105,
    116, 99, 104, 105, 110, 103, 32, 80, 114, 111, 116, 111, 99, 111, 108,
    115, 13, 10, 85, 112, 103, 114, 97, 100, 101, 58, 32, 119, 101, 98,
    115, 111, 99, 107, 101, 116, 13, 10, 13, 10>>

\* "HTTP/1.1 404 Not Found\r\n\r\n"
Reply404 ==
    <<72, 84, 84, 80, 47, 49, 46, 49, 32, 52, 48, 52, 32, 78, 111, 116, 32,
    70, 111, 117, 110, 100, 13, 10, 13, 10>>

\* "HTTP/1.1 404 Not Found\r\nContent-Length: 101\r\n\r\n"
Reply404Length ==
    <<72, 84, 84, 80, 47, 49, 46, 49, 32, 52, 48, 52, 32, 78, 111, 116, 32,
    70, 111, 117, 110, 100, 13, 10, 67, 111, 110, 116, 101, 110, 116, 45,
    76, 101, 110, 103, 116, 104, 58, 32, 49, 48, 49, 13, 10, 13, 10>>

\* "garbage\r\n\r\n", no status line
ReplyMalformed ==
    <<103, 97, 114, 98, 97, 103, 101, 13, 10, 13, 10>>

\* "HTTP/1.1 101 Switching Protocols\r\n", the headers never end
ReplyCut ==
    <<72, 84, 84, 80, 47, 49, 46, 49, 32, 49, 48, 49, 32, 83, 119, 105,
    116, 99, 104, 105, 110, 103, 32, 80, 114, 111, 116, 111, 99, 111, 108,
    115, 13, 10>>

HsReplies == {Reply101, Reply404, Reply404Length, ReplyMalformed, ReplyCut}

\* what the server sends behind its response: nothing, or a text frame "ok"
HsExtras == {<<>>, ServerFrame(TRUE, OP_TEXT, <<111, 107>>)}

\* b'\r\n\r\n', line 79
Terminator == <<13, 10, 13, 10>>
\* '101', line 87
Code101 == <<49, 48, 49>>
\* recv(1024), line 80
HsRecvSize == 1024

\* pat in s, for bytes and for str
Contains(s, pat) ==
    \E i \in 1..(Len(s) - Len(pat) + 1) : SubSeq(s, i, i + Len(pat) - 1) = pat

IsCont(b) == b >= 128 /\ b <= 191

\* whether bytes.decode('utf-8') accepts s
RECURSIVE Utf8Valid(_)
Utf8Valid(s) ==
    IF s = <<>> THEN TRUE
    ELSE LET b == s[1] IN
         IF b < 128 THEN Utf8Valid(Tail(s))
         ELSE IF b >= 194 /\ b <= 223
              THEN Len(s) >= 2 /\ IsCont(s[2]) /\ Utf8Valid(Drop(s, 2))
         ELSE IF b >= 224 /\ b <= 239
              THEN /\ Len(s) >= 3 /\ IsCont(s[2]) /\ IsCont(s[3])
                   /\ b = 224 => s[2] >= 160
                   /\ b = 237 => s[2] <= 159
                   /\ Utf8Valid(Drop(s, 3))
         ELSE IF b >= 240 /\ b <= 244
              THEN /\ Len(s) >= 4 /\ IsCont(s[2]) /\ IsCont(s[3]) /\ IsCont(s[4])
                   /\ b = 240 => s[2] >= 144
                   /\ b = 244 => s[2] <= 143
                   /\ Utf8Valid(Drop(s, 4))
         ELSE FALSE

\* line 79 with the terminator looked for in the last chunk only
HsTerminatedInChunk(response, chunk) == Contains(chunk, Terminator)

\* line 79: b'\r\n\r\n' in response
HsTerminated(response, chunk) == Contains(response, Terminator)

\* line 87: '101' in response_str
HsStatusOk(response) == Contains(response, Code101)

\* lines 75-76: the request is sent; the server answers
HsServer ==
    /\ hphase = "start"
    /\ \E reply \in HsReplies, extra \in HsExtras, cl \in BOOLEAN :
        /\ hreply' = reply
        /\ hextra' = extra
        /\ hcloses' = cl
        /\ hstream' = reply \o extra
    /\ hphase' = "reading"
    /\ UNCHANGED <<hresponse, hchunk, hout, hbuf, hdelivered>>
    /\ UNCHANGED <<connVars, codecVars, burstVars, restVars>>

\* lines 79-83: one pass of the read loop
HsRecv ==
    /\ hphase = "reading"
    /\ ~HsTerminated(hresponse, hchunk)
    /\ \/ \* a chunk of what has been sent
          /\ hstream # <<>>
          /\ \E k \in 1..Len(hstream) :
               /\ k <= HsRecvSize
               /\ hchunk' = Take(hstream, k)
               /\ hresponse' = hresponse \o Take(hstream, k)
               /\ hstream' = Drop(hstream, k)
          /\ UNCHANGED <<hphase, hout>>
       \/ \* line 82: the stream is closed, recv returns b''
          /\ hstream = <<>> /\ hcloses
          /\ hchunk' = <<>>
          /\ hout' = "ClosedDuringHandshake"
          /\ hphase' = "failed"
          /\ UNCHANGED <<hresponse, hstream>>
       \/ \* nothing more arrives: recv raises socket.timeout after 30 s
          /\ hstream = <<>> /\ ~hcloses
          /\ hout' = "Timeout"
          /\ hphase' = "failed"
          /\ UNCHANGED <<hresponse, hstream, hchunk>>
    /\ UNCHANGED <<hreply, hextra, hcloses, hbuf, hdelivered>>
    /\ UNCHANGED <<connVars, codecVars, burstVars, restVars>>

\* lines 85-90: the response is decoded and searched for 101
HsCheck ==
    /\ hphase = "reading"
    /\ HsTerminated(hresponse, hchunk)
    /\ IF ~Utf8Valid(hresponse)
       THEN hout' = "UnicodeDecodeError" /\ hphase' = "failed"
       ELSE IF ~HsStatusOk(hresponse)
       THEN hout' = "HandshakeRejected" /\ hphase' = "failed"
       ELSE hout' = "ok" /\ hphase' = "open"
    /\ UNCHANGED <<hreply, hextra, hcloses, hstream, hresponse, hchunk, hbuf,
                   hdelivered>>
    /\ UNCHANGED <<connVars, codecVars, burstVars, restVars>>

\* lines 94-95 and 156: the receive thread starts with buffer = b''
HsLoopStart ==
    /\ hphase = "open"
    /\ hbuf' = <<>>
    /\ hphase' = "recv"
    /\ UNCHANGED <<hreply, hextra, hcloses, hstream, hresponse, hchunk, hout,
                   hdelivered>>
    /\ UNCHANGED <<connVars, codecVars, burstVars, restVars>>

\* lines 161-166: recv(4096) of what is left of the server's bytes; with
\* nothing left the thread has no more to do here
HsLoopRecv ==
    /\ hphase = "recv"
    /\ IF hstream = <<>>
       THEN /\ hphase' = "idle"
            /\ UNCHANGED <<hstream, hbuf>>
       ELSE /\ \E k \in 1..Len(hstream) :
                 /\ k <= RecvSize
                 /\ hbuf' = hbuf \o Take(hstream, k)
                 /\ hstream' = Drop(hstream, k)
            /\ hphase' = "decode"
    /\ UNCHANGED <<hreply, hextra, hcloses, hresponse, hchunk, hout, hdelivered>>
    /\ UNCHANGED <<connVars, codecVars, burstVars, restVars>>

\* lines 169-220: one pass of the inner loop
HsLoopDecode ==
    /\ hphase = "decode"
    /\ LET res == DecodeStep(hbuf)
           act == FrameAction(res)
       IN  /\ hbuf' = res.rest
           /\ hdelivered' = IF act = "message" THEN Append(hdelivered, res.payload)
                            ELSE hdelivered
           /\ hphase' = IF act = "break" THEN "recv"
                        ELSE IF act = "close" THEN "idle"
                        ELSE "decode"
    /\ UNCHANGED <<hreply, hextra, hcloses, hstream, hresponse, hchunk, hout>>
    /\ UNCHANGED <<connVars, codecVars, burstVars, restVars>>

HsNext ==
    \/ HsServer
    \/ HsRecv
    \/ HsCheck
    \/ HsLoopStart
    \/ HsLoopRecv
    \/ HsLoopDecode

SpecHandshake == Init /\ [][HsNext]_vars

(***************************************************************************)
(* GameWebSocket._handle_message, lines 275-298                            *)
(***************************************************************************)
\* {"type":"move"}
MoveDoc ==
    <<123, 34, 116, 121, 112, 101, 34, 58, 34, 109, 111, 118, 101, 34, 125>>

\* {"type":"error"}
ErrorDoc ==
    <<123, 34, 116, 121, 112, 101, 34, 58, 34, 101, 114, 114, 111, 114, 34,
    125>>

\* {"type":"game_update"}
UpdateDoc ==
    <<123, 34, 116, 121, 112, 101, 34, 58, 34, 103, 97, 109, 101, 95, 117,
    112, 100, 97, 116, 101, 34, 125>>

\* {"type":"player_joined"}
JoinedDoc ==
    <<123, 34, 116, 121, 112, 101, 34, 58, 34, 112, 108, 97, 121, 101, 114,
    95, 106, 111, 105, 110, 101, 100, 34, 125>>

\* {"type":"resignation"}
ResignDoc ==
    <<123, 34, 116, 121, 112, 101, 34, 58, 34, 114, 101, 115, 105, 103,
    110, 97, 116, 105, 111, 110, 34, 125>>

\* {"type":"chat"}
ChatDoc ==
    <<123, 34, 116, 121, 112, 101, 34, 58, 34, 99, 104, 97, 116, 34, 125>>

\* {"type":"Move"}
UpperDoc ==
    <<123, 34, 116, 121, 112, 101, 34, 58, 34, 77, 111, 118, 101, 34, 125>>

\* {"type":"moves"}
LongerDoc ==
    <<123, 34, 116, 121, 112, 101, 34, 58, 34, 109, 111, 118, 101, 115, 34,
    125>>

\* {}
NoTypeDoc ==
    <<123, 125>>

\* []
ArrayDoc ==
    <<91, 93>>

\* oops
BadDoc ==
    <<111, 111, 112, 115>>

\* {"type":"
ObjectHead ==
    <<123, 34, 116, 121, 112, 101, 34, 58, 34>>

\* "}
ObjectEnd ==
    <<34, 125>>

\* 'game_update'
TypeGameUpdate ==
    <<103, 97, 109, 101, 95, 117, 112, 100, 97, 116, 101>>

\* 'move'
TypeMove ==
    <<109, 111, 118, 101>>

\* 'player_joined'
TypePlayerJoined ==
    <<112, 108, 97, 121, 101, 114, 95, 106, 111, 105, 110, 101, 100>>

\* 'resignation'
TypeResignation ==
    <<114, 101, 115, 105, 103, 110, 97, 116, 105, 111, 110>>

\* 'error'
TypeError ==
    <<101, 114, 114, 111, 114>>

\* 'Unknown error', line 295
UnknownError ==
    <<85, 110, 107, 110, 111, 119, 110, 32, 101, 114, 114, 111, 114>>

\* 'Invalid message: ', line 298
InvalidMessage ==
    <<73, 110, 118, 97, 108, 105, 100, 32, 109, 101, 115, 115, 97, 103,
    101, 58, 32>>

Documents ==
    {MoveDoc, ErrorDoc, UpdateDoc, JoinedDoc, ResignDoc, ChatDoc, UpperDoc,
     LongerDoc, NoTypeDoc, ArrayDoc, BadDoc}

AllHandlers ==
    {"on_game_update", "on_opponent_move", "on_player_joined", "on_resignation",
     "on_error"}

\* json.loads(message), line 278, on a text that is {}, [], an object with the
\* one member "type" whose value is a string without quote or backslash, or
\* not JSON at all
JsonLoads(message) ==
    LET n == Len(message)
        h == Len(ObjectHead)
        e == Len(ObjectEnd)
        inner == Slice(message, h, n - e)
    IN  IF message = <<123, 125>>
        THEN [kind |-> "object", has_type |-> FALSE, type |-> <<>>]
        ELSE IF message = <<91, 93>>
        THEN [kind |-> "list", has_type |-> FALSE, type |-> <<>>]
        ELSE IF /\ n >= h + e
                /\ Take(message, h) = ObjectHead
                /\ Drop(message, n - e) = ObjectEnd
                /\ \A i \in 1..Len(inner) : inner[i] \notin {34, 92}
        THEN [kind |-> "object", has_type |-> TRUE, type |-> inner]
        ELSE [kind |-> "JSONDecodeError", has_type |-> FALSE, type |-> <<>>]

\* lines 281-295: the callback that belongs to data.get('type')
TypeHandler(data) ==
    IF ~data.has_type THEN "none"
    ELSE IF data.type = TypeGameUpdate THEN "on_game_update"
    ELSE IF data.type = TypeMove THEN "on_opponent_move"
    ELSE IF data.type = TypePlayerJoined THEN "on_player_joined"
    ELSE IF data.type = TypeResignation THEN "on_resignation"
    ELSE IF data.type = TypeError THEN "on_error"
    ELSE "none"

NoCalls == [exc |-> "none", calls |-> <<>>]

\* lines 277-298 with the type compared by its first four characters
HandleMessageByPrefix(message, registered) ==
    LET data == JsonLoads(message)
        short == [data EXCEPT !.type = Take(@, 4)]
        handler == TypeHandler(short)
    IN  IF data.kind = "JSONDecodeError"
        THEN IF "on_error" \in registered
             THEN [exc |-> "none",
                   calls |-> <<[h |-> "on_error", arg |-> InvalidMessage \o message]>>]
             ELSE NoCalls
        ELSE IF data.kind # "object"
        THEN [exc |-> "AttributeError", calls |-> <<>>]
        ELSE IF handler = "none" \/ handler \notin registered
        THEN NoCalls
        ELSE [exc |-> "none", calls |-> <<[h |-> handler, arg |-> message]>>]

\* lines 277-298: the callbacks made and the exception raised.  The argument
\* of a callback is given by the text it was built from.
HandleMessage(message, registered) ==
    LET data == JsonLoads(message)
        handler == TypeHandler(data)
    IN  IF data.kind = "JSONDecodeError"
        THEN \* lines 296-298
             IF "on_error" \in registered
             THEN [exc |-> "none",
                   calls |-> <<[h |-> "on_error", arg |-> InvalidMessage \o message]>>]
             ELSE NoCalls
        ELSE IF data.kind # "object"
        THEN \* line 279: a list has no get
             [exc |-> "AttributeError", calls |-> <<>>]
        ELSE IF handler = "none" \/ handler \notin registered
        THEN NoCalls
        ELSE IF handler = "on_error"
        THEN [exc |-> "none", calls |-> <<[h |-> "on_error", arg |-> UnknownError]>>]
        ELSE [exc |-> "none", calls |-> <<[h |-> handler, arg |-> message]>>]

\* a GameWebSocket is built with some of the callbacks and a text message
\* arrives
DispatchCall ==
    /\ dphase = "start"
    /\ \E message \in Documents, registered \in SUBSET AllHandlers :
        /\ dmessage' = message
        /\ dregistered' = registered
    /\ dphase' = "called"
    /\ UNCHANGED <<dcalls, dexc>>
    /\ UNCHANGED <<connVars, codecVars, hsVars, burstVars, lifeVars, waitVars,
                   gameVars, statusVars>>

\* lines 275-298
DispatchHandle ==
    /\ dphase = "called"
    /\ dcalls' = HandleMessage(dmessage, dregistered).calls
    /\ dexc' = HandleMessage(dmessage, dregistered).exc
    /\ dphase' = "returned"
    /\ UNCHANGED <<dmessage, dregistered>>
    /\ UNCHANGED <<connVars, codecVars, hsVars, burstVars, lifeVars, waitVars,
                   gameVars, statusVars>>

DispatchNext ==
    \/ DispatchCall
    \/ DispatchHandle

SpecDispatch == Init /\ [][DispatchNext]_vars

(***************************************************************************)
(* The receive thread of an open connection whose on_message is            *)
(* GameWebSocket._handle_message (lines 266, 275-298), on the frames the   *)
(* server sends in one go.  All callbacks are registered.                  *)
(***************************************************************************)
MaxRun == 2          \* frames the server sends in one go

\* the first 8 bytes of MoveDoc
MoveHead ==
    <<123, 34, 116, 121, 112, 101, 34, 58>>

\* the last 7 bytes of MoveDoc
MoveTail ==
    <<34, 109, 111, 118, 101, 34, 125>>

OP_CONT == 0

OP_RESERVED == 3     \* an opcode RFC 6455 reserves (3-7, 11-15)

BadUtf8 == <<255>>   \* not UTF-8

BurstFrames ==
    {<<TRUE, OP_TEXT, MoveDoc>>,
     <<TRUE, OP_TEXT, ErrorDoc>>,
     <<TRUE, OP_TEXT, ChatDoc>>,
     <<TRUE, OP_TEXT, BadDoc>>,
     <<TRUE, OP_TEXT, ArrayDoc>>,
     <<TRUE, OP_TEXT, BadUtf8>>,
     <<FALSE, OP_TEXT, MoveHead>>,
     <<TRUE, OP_CONT, MoveTail>>,
     <<TRUE, OP_RESERVED, <<>>>>,
     <<TRUE, OP_PING, <<112>>>>,
     <<TRUE, OP_PONG, <<>>>>,
     <<TRUE, OP_CLOSE, <<>>>>}

RECURSIVE BurstRunsOf(_)
BurstRunsOf(n) ==
    IF n = 0 THEN {}
    ELSE {<<f>> : f \in BurstFrames} \cup
         {Append(r, f) : r \in BurstRunsOf(n - 1), f \in BurstFrames}

BurstRuns == BurstRunsOf(MaxRun)

RECURSIVE RunBytes(_)
RunBytes(run) ==
    IF run = <<>> THEN <<>>
    ELSE ServerFrame(run[1][1], run[1][2], run[1][3]) \o RunBytes(Tail(run))

\* lines 277-298 with every callback registered: the callback made, "none",
\* or "raise" when the call raises
HandlerOf(message) ==
    LET r == HandleMessage(message, AllHandlers)
    IN  IF r.exc # "none" THEN "raise"
        ELSE IF r.calls = <<>> THEN "none"
        ELSE r.calls[1].h

\* lines 169-220 with the inner loop left after every frame
NextPassOnePerRead(act) ==
    IF act = "break" THEN "top"
    ELSE IF act = "close" THEN "top"
    ELSE "top"

\* lines 169-220 with the inner loop left behind a ping
NextPassBreakOnPing(act) ==
    IF act = "break" THEN "top"
    ELSE IF act = "close" THEN "top"
    ELSE IF act = "pong" THEN "top"
    ELSE "decode"

\* lines 169-220: where the thread goes after a pass of the inner loop
NextPass(act) ==
    IF act = "break" THEN "top"
    ELSE IF act = "close" THEN "top"
    ELSE "decode"

\* lines 222-227 as "except OSError": other exceptions leave the thread
OnExceptionOSError(exc) ==
    IF exc = "socket.timeout" THEN "top"
    ELSE IF exc \in {"ConnectionResetError", "BrokenPipeError"} THEN "exit"
    ELSE "raised"

\* lines 222-227 without the clause for socket.timeout
OnExceptionAllBreak(exc) == "exit"

\* lines 222-227 with every exception handled like the read timeout
OnExceptionContinue(exc) == "top"

\* lines 222-227: where the thread goes when the try block raises exc:
\* continue for socket.timeout, break for every other Exception
OnException(exc) ==
    IF exc = "socket.timeout" THEN "top"
    ELSE "exit"

\* the connection is open (lines 90-95); the server sends a run of frames,
\* all of which or a first part of which arrives before the first read
BurstServer ==
    /\ bphase = "start"
    /\ \E run \in BurstRuns :
        /\ bsent' = run
        /\ \E k \in 1..Len(RunBytes(run)) :
             /\ bstream' = Take(RunBytes(run), k)
             /\ blater' = Drop(RunBytes(run), k)
    /\ bconnected' = TRUE
    /\ bbuf' = <<>>
    /\ bphase' = "top"
    /\ UNCHANGED <<breads, bidle, bcalls, bhandled, bpongs, bcause, bmark,
                   bframes, bevents, bfirst>>
    /\ UNCHANGED <<connVars, codecVars, hsVars, restVars>>

\* line 158 (close() is not called here)
BurstTop ==
    /\ bphase = "top"
    /\ bphase' = IF bconnected THEN "recv" ELSE "exit"
    /\ UNCHANGED <<bsent, bstream, blater, bconnected, bbuf, breads, bidle,
                   bcalls, bhandled, bpongs, bcause, bmark, bframes, bevents,
                   bfirst>>
    /\ UNCHANGED <<connVars, codecVars, hsVars, restVars>>

\* lines 160-166 and 222-227
BurstRecv ==
    /\ bphase = "recv"
    /\ \/ \* recv returns what has arrived, or the rest arrives and recv
          \* returns that
          /\ LET chunk == IF bstream # <<>> THEN bstream ELSE blater
             IN  /\ chunk # <<>>
                 /\ Len(chunk) <= RecvSize
                 /\ bbuf' = bbuf \o chunk
          /\ bstream' = <<>>
          /\ blater' = IF bstream # <<>> THEN blater ELSE <<>>
          /\ breads' = breads + 1
          /\ bphase' = "decode"
          /\ bidle' = FALSE
          /\ UNCHANGED <<bcause, bmark>>
       \/ \* nothing arrives within the second: recv raises socket.timeout
          /\ bstream = <<>>
          /\ bphase' = OnException("socket.timeout")
          /\ bidle' = TRUE
          /\ UNCHANGED <<bstream, blater, bbuf, breads, bcause, bmark>>
       \/ \* line 163: the peer has disconnected, recv returns b'', break
          /\ bstream = <<>>
          /\ bcause' = "eof"
          /\ bmark' = Len(bhandled)
          /\ bphase' = "exit"
          /\ bidle' = FALSE
          /\ UNCHANGED <<bstream, blater, bbuf, breads>>
       \/ \* the stream is reset, recv raises
          /\ bstream = <<>>
          /\ bcause' = "reset"
          /\ bmark' = Len(bhandled)
          /\ bphase' = OnException("ConnectionResetError")
          /\ bidle' = FALSE
          /\ UNCHANGED <<bstream, blater, bbuf, breads>>
    /\ UNCHANGED <<bsent, bconnected, bcalls, bhandled, bpongs, bframes,
                   bevents, bfirst>>
    /\ UNCHANGED <<connVars, codecVars, hsVars, restVars>>

\* lines 169-220 with on_message = _handle_message: one pass.  The write of
\* a pong succeeds, fails or times out; a callback returns or raises.
BurstDecode ==
    /\ bphase = "decode"
    /\ \E written \in {"ok", "BrokenPipeError", "socket.timeout"},
          returns \in BOOLEAN :
       LET res == DecodeStep(bbuf)
           act == FrameAction(res)
           handler == HandlerOf(res.payload)
       IN  /\ bbuf' = res.rest
           /\ IF act = "message" /\ ~Utf8Valid(res.payload)
              THEN \* line 213 raises
                   /\ bcause' = "decode"
                   /\ bmark' = Len(bhandled)
                   /\ bphase' = OnException("UnicodeDecodeError")
                   /\ UNCHANGED <<bcalls, bhandled, bpongs, bconnected>>
              ELSE IF act = "message" /\ handler = "raise"
              THEN \* line 279 raises in on_message
                   /\ bcalls' = Append(bcalls, res.payload)
                   /\ bcause' = "dispatch"
                   /\ bmark' = Len(bhandled)
                   /\ bphase' = OnException("AttributeError")
                   /\ UNCHANGED <<bhandled, bpongs, bconnected>>
              ELSE IF act = "message" /\ handler # "none" /\ ~returns
              THEN \* the callback raises
                   /\ bcalls' = Append(bcalls, res.payload)
                   /\ bhandled' = Append(bhandled, handler)
                   /\ bcause' = "callback"
                   /\ bmark' = Len(bhandled) + 1
                   /\ bphase' = OnException("Exception")
                   /\ UNCHANGED <<bpongs, bconnected>>
              ELSE IF act = "pong" /\ written = "BrokenPipeError"
              THEN \* line 220: sendall raises in _send_frame
                   /\ bcause' = "write"
                   /\ bmark' = Len(bhandled)
                   /\ bphase' = OnException("BrokenPipeError")
                   /\ UNCHANGED <<bcalls, bhandled, bpongs, bconnected>>
              ELSE IF act = "pong" /\ written = "socket.timeout"
              THEN \* line 220: sendall does not finish within the second
                   /\ bcause' = "wtimeout"
                   /\ bmark' = Len(bhandled)
                   /\ bphase' = OnException("socket.timeout")
                   /\ UNCHANGED <<bcalls, bhandled, bpongs, bconnected>>
              ELSE /\ bphase' = NextPass(act)
                   /\ bcalls' = IF act = "message" THEN Append(bcalls, res.payload)
                                ELSE bcalls
                   /\ bhandled' = IF act = "message" /\ handler # "none"
                                  THEN Append(bhandled, handler)
                                  ELSE bhandled
                   /\ bpongs' = IF act = "pong" THEN Append(bpongs, res.payload)
                                ELSE bpongs
                   /\ bconnected' = IF act = "close" THEN FALSE ELSE bconnected
                   /\ UNCHANGED <<bcause, bmark>>
           /\ bframes' = bframes + (IF res.kind = "frame" THEN 1 ELSE 0)
           /\ bevents' =
                IF Len(bcalls') > Len(bcalls)
                THEN Append(bevents, [kind |-> "message", data |-> res.payload])
                ELSE IF Len(bpongs') > Len(bpongs)
                THEN Append(bevents, [kind |-> "pong", data |-> res.payload])
                ELSE bevents
           /\ bfirst' =
                IF bfirst.at = 0 /\ bcause' # bcause
                THEN [at |-> bframes + 1, cause |-> bcause']
                ELSE bfirst
    /\ UNCHANGED <<bsent, bstream, blater, breads, bidle>>
    /\ UNCHANGED <<connVars, codecVars, hsVars, restVars>>

\* line 229
BurstExit ==
    /\ bphase = "exit"
    /\ bconnected' = FALSE
    /\ bphase' = "done"
    /\ UNCHANGED <<bsent, bstream, blater, bbuf, breads, bidle, bcalls, bhandled,
                   bpongs, bcause, bmark, bframes, bevents, bfirst>>
    /\ UNCHANGED <<connVars, codecVars, hsVars, restVars>>

BurstNext ==
    \/ BurstServer
    \/ BurstTop
    \/ BurstRecv
    \/ BurstDecode
    \/ BurstExit

SpecBurst == Init /\ [][BurstNext]_vars

(***************************************************************************)
(* InteractiveGame.start (game.py, lines 40-77) on top of the handshake    *)
(***************************************************************************)
\* the class of the exception with which SimpleWebSocket.connect ends
\* (websocket.py, lines 55, 80, 82, 85 and 88)
ConnectException(out) ==
    IF out \in {"ConnectFailed", "ClosedDuringHandshake", "HandshakeRejected"}
    THEN "WebSocketError"
    ELSE IF out = "Timeout" THEN "socket.timeout"
    ELSE out

\* game.py, line 75, as "except WebSocketError"
StartCatchesWebSocketError(exc) == exc = "WebSocketError"

\* game.py, line 75: except Exception
StartCatches(exc) ==
    exc \in {"WebSocketError", "socket.timeout", "UnicodeDecodeError"}

\* game.py, lines 42-55: the game and its moves are fetched
StartFetch ==
    /\ gphase = "init"
    /\ \/ gphase' = "fetched"
       \/ \* APIError: printed, start() returns
          gphase' = "returned"
    /\ UNCHANGED <<gws, gwarned, gexc>>
    /\ UNCHANGED <<connVars, codecVars, hsVars, burstVars, dispVars, lifeVars,
                   waitVars, statusVars>>

\* game.py, lines 58 and 63-74, websocket.py, lines 260-267 and 37-57
StartOpenSocket ==
    /\ gphase = "fetched"
    /\ gws' = TRUE
    /\ \/ /\ gphase' = "connecting"
          /\ UNCHANGED <<gwarned, gexc>>
       \/ \* websocket.py, line 55: sock.connect fails
          /\ gexc' = ConnectException("ConnectFailed")
          /\ IF StartCatches(ConnectException("ConnectFailed"))
             THEN gwarned' = TRUE /\ gphase' = "loop"
             ELSE gwarned' = gwarned /\ gphase' = "crashed"
    /\ UNCHANGED <<connVars, codecVars, hsVars, burstVars, dispVars, lifeVars,
                   waitVars, statusVars>>

\* websocket.py, lines 59-90, within self._ws.connect()
StartHandshake ==
    /\ gphase = "connecting"
    /\ \/ HsServer
       \/ HsRecv
       \/ HsCheck

\* the receive thread, started at websocket.py, lines 94-95
StartThread ==
    /\ gphase \in {"connecting", "loop", "playing"}
    /\ \/ HsLoopStart
       \/ HsLoopRecv
       \/ HsLoopDecode

\* game.py, lines 74-77: self._ws.connect() returns or raises
StartConnectEnds ==
    /\ gphase = "connecting"
    /\ hphase \in {"failed", "recv", "decode", "idle"}
    /\ IF hphase = "failed"
       THEN /\ gexc' = ConnectException(hout)
            /\ IF StartCatches(ConnectException(hout))
               THEN gwarned' = TRUE /\ gphase' = "loop"
               ELSE gwarned' = gwarned /\ gphase' = "crashed"
       ELSE /\ gphase' = "loop"
            /\ UNCHANGED <<gwarned, gexc>>
    /\ UNCHANGED gws
    /\ UNCHANGED <<connVars, codecVars, hsVars, burstVars, dispVars, lifeVars,
                   waitVars, statusVars>>

\* game.py, lines 61 and 123-127: _game_loop is entered
StartGameLoop ==
    /\ gphase = "loop"
    /\ gphase' = "playing"
    /\ UNCHANGED <<gws, gwarned, gexc>>
    /\ UNCHANGED <<connVars, codecVars, hsVars, burstVars, dispVars, lifeVars,
                   waitVars, statusVars>>

StartNext ==
    \/ StartFetch
    \/ StartOpenSocket
    \/ StartHandshake
    \/ StartThread
    \/ StartConnectEnds
    \/ StartGameLoop

SpecStart == Init /\ [][StartNext]_vars

(***************************************************************************)
(* One SimpleWebSocket, its calling thread and its receive threads: which  *)
(* thread reads which socket.  connect() and close() are called in any     *)
(* order; what the frames carry is left out.                               *)
(***************************************************************************)
Running(t) == lthr[t].pc \in {"top", "read", "recv", "exit"}

\* lines 45-57: a socket is created and connected, and stored
LifeConnectOpen ==
    /\ lcaller = "idle"
    /\ lnsock < MaxConnects
    /\ \/ \* line 55
          /\ llast' = "connect_failed"
          /\ UNCHANGED <<lsock, lnsock, lcaller>>
       \/ /\ lnsock' = lnsock + 1
          /\ lsock' = lnsock + 1
          /\ lcaller' = "c_hs"
          /\ UNCHANGED llast
    /\ UNCHANGED <<lconnected, lstop, lclosed, lthr>>
    /\ UNCHANGED lowner
    /\ UNCHANGED <<connVars, codecVars, hsVars, burstVars, dispVars, waitVars,
                   gameVars, statusVars>>

\* lines 59-88: the calling thread reads the response from its socket
LifeConnectHandshake ==
    /\ lcaller = "c_hs"
    /\ \/ lcaller' = "c_flag" /\ UNCHANGED llast
       \/ \* lines 80, 82, 85, 88
          lcaller' = "idle" /\ llast' = "connect_failed"
    /\ UNCHANGED <<lsock, lconnected, lstop, lnsock, lclosed, lthr>>
    /\ UNCHANGED lowner
    /\ UNCHANGED <<connVars, codecVars, hsVars, burstVars, dispVars, waitVars,
                   gameVars, statusVars>>

\* line 90
LifeConnectFlag ==
    /\ lcaller = "c_flag"
    /\ lconnected' = TRUE
    /\ lowner' = lnsock
    /\ lcaller' = "c_clear"
    /\ UNCHANGED <<lsock, lstop, lnsock, lclosed, llast, lthr>>
    /\ UNCHANGED <<connVars, codecVars, hsVars, burstVars, dispVars, waitVars,
                   gameVars, statusVars>>

\* line 91
LifeConnectClear ==
    /\ lcaller = "c_clear"
    /\ lstop' = FALSE
    /\ lcaller' = "c_start"
    /\ UNCHANGED <<lsock, lconnected, lnsock, lclosed, llast, lthr>>
    /\ UNCHANGED lowner
    /\ UNCHANGED <<connVars, codecVars, hsVars, burstVars, dispVars, waitVars,
                   gameVars, statusVars>>

\* lines 94-95: a new receive thread, numbered like the socket of the call
LifeConnectStart ==
    /\ lcaller = "c_start"
    /\ lthr' = [lthr EXCEPT ![lnsock] = [pc |-> "top", rd |-> 0]]
    /\ lcaller' = "idle"
    /\ llast' = "connect"
    /\ UNCHANGED <<lsock, lconnected, lstop, lnsock, lclosed>>
    /\ UNCHANGED lowner
    /\ UNCHANGED <<connVars, codecVars, hsVars, burstVars, dispVars, waitVars,
                   gameVars, statusVars>>

\* line 99
LifeCloseStop ==
    /\ lcaller = "idle"
    /\ lstop' = TRUE
    /\ lcaller' = "x_flag"
    /\ UNCHANGED <<lsock, lconnected, lnsock, lclosed, llast, lthr>>
    /\ UNCHANGED lowner
    /\ UNCHANGED <<connVars, codecVars, hsVars, burstVars, dispVars, waitVars,
                   gameVars, statusVars>>

\* line 100
LifeCloseFlag ==
    /\ lcaller = "x_flag"
    /\ lconnected' = FALSE
    /\ lcaller' = "x_sock"
    /\ UNCHANGED <<lsock, lstop, lnsock, lclosed, llast, lthr>>
    /\ UNCHANGED lowner
    /\ UNCHANGED <<connVars, codecVars, hsVars, burstVars, dispVars, waitVars,
                   gameVars, statusVars>>

\* lines 102-112: the close frame is written and the socket closed; without
\* a socket close() returns
LifeCloseSocket ==
    /\ lcaller = "x_sock"
    /\ IF lsock # 0
       THEN /\ lclosed' = lclosed \cup {lsock}
            /\ lcaller' = "x_none"
            /\ UNCHANGED llast
       ELSE /\ lcaller' = "idle"
            /\ llast' = "close"
            /\ UNCHANGED lclosed
    /\ UNCHANGED <<lsock, lconnected, lstop, lnsock, lthr>>
    /\ UNCHANGED lowner
    /\ UNCHANGED <<connVars, codecVars, hsVars, burstVars, dispVars, waitVars,
                   gameVars, statusVars>>

\* line 114; close() returns, there is no join
LifeCloseNone ==
    /\ lcaller = "x_none"
    /\ lsock' = 0
    /\ lcaller' = "idle"
    /\ llast' = "close"
    /\ UNCHANGED <<lconnected, lstop, lnsock, lclosed, lthr>>
    /\ UNCHANGED lowner
    /\ UNCHANGED <<connVars, codecVars, hsVars, burstVars, dispVars, waitVars,
                   gameVars, statusVars>>

\* line 158
LifeLoopTop(t) ==
    /\ lthr[t].pc = "top"
    /\ lthr' = [lthr EXCEPT ![t].pc = IF ~lstop /\ lconnected THEN "read"
                                     ELSE "exit"]
    /\ UNCHANGED <<lsock, lconnected, lstop, lnsock, lclosed, lcaller, llast>>
    /\ UNCHANGED lowner
    /\ UNCHANGED <<connVars, codecVars, hsVars, burstVars, dispVars, waitVars,
                   gameVars, statusVars>>

\* lines 160-161: self._socket is read and recv entered.  Without a socket
\* (AttributeError) or on a closed one (OSError) lines 224-227 break.
LifeLoopRecv(t) ==
    /\ lthr[t].pc = "read"
    /\ IF lsock = 0 \/ lsock \in lclosed
       THEN lthr' = [lthr EXCEPT ![t].pc = "exit"]
       ELSE lthr' = [lthr EXCEPT ![t] = [pc |-> "recv", rd |-> lsock]]
    /\ UNCHANGED <<lsock, lconnected, lstop, lnsock, lclosed, lcaller, llast>>
    /\ UNCHANGED lowner
    /\ UNCHANGED <<connVars, codecVars, hsVars, burstVars, dispVars, waitVars,
                   gameVars, statusVars>>

\* line 161 without the timeout of line 160: recv returns when the peer
\* acts, and never on a socket that was closed under it
WakeOutcomesBlocking(s) ==
    IF s \in lclosed THEN {}
    ELSE {"data", "close", "eof", "error"}

\* line 161: how a recv that waits on socket s can end.  On a socket closed
\* by close() meanwhile it raises at once or with the timeout of line 160.
WakeOutcomes(s) ==
    IF s \in lclosed THEN {"timeout", "error"}
    ELSE {"timeout", "data", "close", "eof", "error"}

\* lines 161-227: recv ends and what it returned is handled; a thread that
\* leaves the loop at line 164 or 227 is noted with the socket that failed
LifeLoopWake(t) ==
    /\ lthr[t].pc = "recv"
    /\ \E outcome \in WakeOutcomes(lthr[t].rd) :
        /\ lthr' = [lthr EXCEPT ![t] =
                      [pc |-> IF outcome \in {"eof", "error"} THEN "exit" ELSE "top",
                       rd |-> IF outcome \in {"eof", "error"} THEN lthr[t].rd
                              ELSE 0]]
        /\ lconnected' = IF outcome = "close" THEN FALSE ELSE lconnected
    /\ UNCHANGED <<lsock, lstop, lnsock, lclosed, lcaller, llast>>
    /\ UNCHANGED lowner
    /\ UNCHANGED <<connVars, codecVars, hsVars, burstVars, dispVars, waitVars,
                   gameVars, statusVars>>

\* line 229
LifeLoopExit(t) ==
    /\ lthr[t].pc = "exit"
    /\ lconnected' = FALSE
    /\ lthr' = [lthr EXCEPT ![t] = [pc |-> "done", rd |-> 0]]
    /\ UNCHANGED <<lsock, lstop, lnsock, lclosed, lcaller, llast>>
    /\ UNCHANGED lowner
    /\ UNCHANGED <<connVars, codecVars, hsVars, burstVars, dispVars, waitVars,
                   gameVars, statusVars>>

LifeThread(t) ==
    \/ LifeLoopTop(t)
    \/ LifeLoopRecv(t)
    \/ LifeLoopWake(t)
    \/ LifeLoopExit(t)

LifeNext ==
    \/ LifeConnectOpen
    \/ LifeConnectHandshake
    \/ LifeConnectFlag
    \/ LifeConnectClear
    \/ LifeConnectStart
    \/ LifeCloseStop
    \/ LifeCloseFlag
    \/ LifeCloseSocket
    \/ LifeCloseNone
    \/ \E t \in LifeThreads : LifeThread(t)

SpecLife == Init /\ [][LifeNext]_vars

\* every receive thread that can take a step eventually takes one
SpecLifeFair == SpecLife /\ \A t \in LifeThreads : WF_vars(LifeThread(t))

(***************************************************************************)
(* How long connect() reads the handshake response (lines 45-90).  Of the  *)
(* response only what decides the test of line 79 is kept: whether the     *)
(* terminator is in it and its last three bytes.                           *)
(***************************************************************************)
MaxChunk == 2        \* bytes one recv returns here

WaitBytes == {13, 10, 88}

RECURSIVE WaitChunksOf(_)
WaitChunksOf(n) ==
    IF n = 0 THEN {}
    ELSE {<<b>> : b \in WaitBytes} \cup
         {Append(c, b) : c \in WaitChunksOf(n - 1), b \in WaitBytes}

WaitChunks == WaitChunksOf(MaxChunk)

\* the last three bytes of a byte string
LastThree(s) == Drop(s, IF Len(s) > 3 THEN Len(s) - 3 ELSE 0)

\* lines 45-57: the socket is created with a timeout of 30 s and connected
WaitConnect ==
    /\ wphase = "start"
    /\ \/ wphase' = "reading" /\ UNCHANGED wout
       \/ \* line 55: refused, or not connected within the 30 s
          wphase' = "raised" /\ wout' = "ConnectFailed"
    /\ UNCHANGED <<wseen, wtail>>
    /\ UNCHANGED <<connVars, codecVars, hsVars, burstVars, dispVars, lifeVars,
                   gameVars, statusVars>>

\* lines 79-83: one pass of the read loop
WaitRecv ==
    /\ wphase = "reading"
    /\ ~wseen
    /\ \/ \* recv returns bytes within the 30 s
          /\ \E chunk \in WaitChunks :
               /\ wseen' = Contains(wtail \o chunk, Terminator)
               /\ wtail' = LastThree(wtail \o chunk)
          /\ UNCHANGED <<wphase, wout>>
       \/ \* nothing arrives within the 30 s: socket.timeout, line 80
          /\ wphase' = "raised"
          /\ wout' = "Timeout"
          /\ UNCHANGED <<wseen, wtail>>
       \/ \* line 82
          /\ wphase' = "raised"
          /\ wout' = "ClosedDuringHandshake"
          /\ UNCHANGED <<wseen, wtail>>
    /\ UNCHANGED <<connVars, codecVars, hsVars, burstVars, dispVars, lifeVars,
                   gameVars, statusVars>>

\* lines 85-95: the response is checked; what it says is left open here
WaitCheck ==
    /\ wphase = "reading"
    /\ wseen
    /\ \/ wphase' = "returned" /\ wout' = "ok"
       \/ wphase' = "raised" /\ wout' = "HandshakeRejected"
       \/ wphase' = "raised" /\ wout' = "UnicodeDecodeError"
    /\ UNCHANGED <<wseen, wtail>>
    /\ UNCHANGED <<connVars, codecVars, hsVars, burstVars, dispVars, lifeVars,
                   gameVars, statusVars>>

WaitNext ==
    \/ WaitConnect
    \/ WaitRecv
    \/ WaitCheck

SpecWait == Init /\ [][WaitNext]_vars

\* the thread that called connect() keeps running
SpecWaitFair == SpecWait /\ WF_vars(WaitNext)


(***************************************************************************)
(* GameWebSocket and the SimpleWebSocket objects it creates (lines         *)
(* 236-302): connect() and disconnect() called one after the other from    *)
(* one thread, each object's receive thread beside it.  What the frames    *)
(* carry is left out.                                                      *)
(***************************************************************************)
\* lines 300-302: the connected property of GameWebSocket
GameConnected == kws # 0 /\ kobj[IF kws = 0 THEN 1 ELSE kws].connected

\* the exceptions with which SimpleWebSocket.connect ends behind line 57
\* (lines 80, 82, 85, 88)
HandshakeExceptions == {"WebSocketError", "socket.timeout", "UnicodeDecodeError"}

\* lines 103-112 without the try blocks
CloseCatchesNothing(exc) == FALSE

\* lines 106 and 111: except Exception: pass
CloseCatches(exc) == exc \in {"OSError", "socket.timeout", "AttributeError"}

\* lines 260-266: a new SimpleWebSocket is created and stored in self._ws
GameConnect ==
    /\ kcaller = "idle"
    /\ kn < MaxObjects
    /\ kn' = kn + 1
    /\ kws' = kn + 1
    /\ kcaller' = "c_open"
    /\ UNCHANGED <<kobj, klast>>
    /\ UNCHANGED <<connVars, codecVars, hsVars, burstVars, dispVars, lifeVars,
                   waitVars, gameVars>>

\* lines 267 and 45-57: the socket is connected and stored, or line 55 raises
GameConnectOpen ==
    /\ kcaller = "c_open"
    /\ \/ /\ kobj' = [kobj EXCEPT ![kws].sock = "open"]
          /\ kcaller' = "c_hs"
          /\ UNCHANGED klast
       \/ /\ kcaller' = "idle"
          /\ klast' = "WebSocketError"
          /\ UNCHANGED kobj
    /\ UNCHANGED <<kws, kn>>
    /\ UNCHANGED <<connVars, codecVars, hsVars, burstVars, dispVars, lifeVars,
                   waitVars, gameVars>>

\* lines 59-88: the handshake; when it fails connect() raises and the socket
\* stays as it is
GameConnectHandshake ==
    /\ kcaller = "c_hs"
    /\ \/ kcaller' = "c_flag" /\ UNCHANGED klast
       \/ \E exc \in HandshakeExceptions :
            kcaller' = "idle" /\ klast' = exc
    /\ UNCHANGED <<kws, kn, kobj>>
    /\ UNCHANGED <<connVars, codecVars, hsVars, burstVars, dispVars, lifeVars,
                   waitVars, gameVars>>

\* line 90
GameConnectFlag ==
    /\ kcaller = "c_flag"
    /\ kobj' = [kobj EXCEPT ![kws].connected = TRUE]
    /\ kcaller' = "c_start"
    /\ UNCHANGED <<kws, kn, klast>>
    /\ UNCHANGED <<connVars, codecVars, hsVars, burstVars, dispVars, lifeVars,
                   waitVars, gameVars>>

\* lines 91-95; connect() returns
GameConnectStart ==
    /\ kcaller = "c_start"
    /\ kobj' = [kobj EXCEPT ![kws].stop = FALSE, ![kws].thr = "top"]
    /\ kcaller' = "idle"
    /\ klast' = "connect"
    /\ UNCHANGED <<kws, kn>>
    /\ UNCHANGED <<connVars, codecVars, hsVars, burstVars, dispVars, lifeVars,
                   waitVars, gameVars>>

\* line 271: if self._ws; without one disconnect() returns
GameDisconnect ==
    /\ kcaller = "idle"
    /\ IF kws # 0
       THEN kcaller' = "x_stop" /\ UNCHANGED klast
       ELSE kcaller' = "idle" /\ klast' = "disconnect"
    /\ UNCHANGED <<kws, kn, kobj>>
    /\ UNCHANGED <<connVars, codecVars, hsVars, burstVars, dispVars, lifeVars,
                   waitVars, gameVars>>

\* lines 272 and 99
GameCloseStop ==
    /\ kcaller = "x_stop"
    /\ kobj' = [kobj EXCEPT ![kws].stop = TRUE]
    /\ kcaller' = "x_flag"
    /\ UNCHANGED <<kws, kn, klast>>
    /\ UNCHANGED <<connVars, codecVars, hsVars, burstVars, dispVars, lifeVars,
                   waitVars, gameVars>>

\* line 100
GameCloseFlag ==
    /\ kcaller = "x_flag"
    /\ kobj' = [kobj EXCEPT ![kws].connected = FALSE]
    /\ kcaller' = "x_frame"
    /\ UNCHANGED <<kws, kn, klast>>
    /\ UNCHANGED <<connVars, codecVars, hsVars, burstVars, dispVars, lifeVars,
                   waitVars, gameVars>>

\* lines 102-107: with a socket the close frame is written, which may fail
GameCloseFrame ==
    /\ kcaller = "x_frame"
    /\ IF kobj[kws].sock = "none"
       THEN kcaller' = "x_ref" /\ UNCHANGED klast
       ELSE \E written \in {"ok", "OSError", "socket.timeout"} :
              IF written = "ok" \/ CloseCatches(written)
              THEN kcaller' = "x_sock" /\ UNCHANGED klast
              ELSE kcaller' = "idle" /\ klast' = "raised"
    /\ UNCHANGED <<kws, kn, kobj>>
    /\ UNCHANGED <<connVars, codecVars, hsVars, burstVars, dispVars, lifeVars,
                   waitVars, gameVars>>

\* lines 109-112: the socket is closed, which may fail
GameCloseSocket ==
    /\ kcaller = "x_sock"
    /\ kobj' = [kobj EXCEPT ![kws].sock = "closed"]
    /\ \E closed \in {"ok", "OSError"} :
         IF closed = "ok" \/ CloseCatches(closed)
         THEN kcaller' = "x_none" /\ UNCHANGED klast
         ELSE kcaller' = "idle" /\ klast' = "raised"
    /\ UNCHANGED <<kws, kn>>
    /\ UNCHANGED <<connVars, codecVars, hsVars, burstVars, dispVars, lifeVars,
                   waitVars, gameVars>>

\* line 114
GameCloseNone ==
    /\ kcaller = "x_none"
    /\ kobj' = [kobj EXCEPT ![kws].sock = "none"]
    /\ kcaller' = "x_ref"
    /\ UNCHANGED <<kws, kn, klast>>
    /\ UNCHANGED <<connVars, codecVars, hsVars, burstVars, dispVars, lifeVars,
                   waitVars, gameVars>>

\* line 273: self._ws = None; disconnect() returns
GameDisconnectEnds ==
    /\ kcaller = "x_ref"
    /\ kws' = 0
    /\ kcaller' = "idle"
    /\ klast' = "disconnect"
    /\ UNCHANGED <<kn, kobj>>
    /\ UNCHANGED <<connVars, codecVars, hsVars, burstVars, dispVars, lifeVars,
                   waitVars, gameVars>>

\* line 158, in the thread of object o
GameLoopTop(o) ==
    /\ kobj[o].thr = "top"
    /\ kobj' = [kobj EXCEPT ![o].thr =
                  IF ~kobj[o].stop /\ kobj[o].connected THEN "read" ELSE "exit"]
    /\ UNCHANGED <<kws, kn, kcaller, klast>>
    /\ UNCHANGED <<connVars, codecVars, hsVars, burstVars, dispVars, lifeVars,
                   waitVars, gameVars>>

\* lines 160-161: without a socket or on a closed one lines 224-227 break
GameLoopRecv(o) ==
    /\ kobj[o].thr = "read"
    /\ kobj' = [kobj EXCEPT ![o].thr =
                  IF kobj[o].sock = "open" THEN "recv" ELSE "exit"]
    /\ UNCHANGED <<kws, kn, kcaller, klast>>
    /\ UNCHANGED <<connVars, codecVars, hsVars, burstVars, dispVars, lifeVars,
                   waitVars, gameVars>>

\* line 161: how a recv that waits can end; "raise" is a message whose
\* handling raises
GameWakeOutcomes(o) ==
    IF kobj[o].sock = "open"
    THEN {"timeout", "data", "raise", "close", "eof", "error"}
    ELSE {"timeout", "error"}

\* lines 161-227: recv ends and what it returned is handled
GameLoopWake(o) ==
    /\ kobj[o].thr = "recv"
    /\ \E outcome \in GameWakeOutcomes(o) :
         kobj' = [kobj EXCEPT
                    ![o].thr = IF outcome \in {"raise", "eof", "error"}
                               THEN "exit" ELSE "top",
                    ![o].connected = IF outcome = "close" THEN FALSE ELSE @]
    /\ UNCHANGED <<kws, kn, kcaller, klast>>
    /\ UNCHANGED <<connVars, codecVars, hsVars, burstVars, dispVars, lifeVars,
                   waitVars, gameVars>>

\* line 229
GameLoopExit(o) ==
    /\ kobj[o].thr = "exit"
    /\ kobj' = [kobj EXCEPT ![o].thr = "done", ![o].connected = FALSE]
    /\ UNCHANGED <<kws, kn, kcaller, klast>>
    /\ UNCHANGED <<connVars, codecVars, hsVars, burstVars, dispVars, lifeVars,
                   waitVars, gameVars>>

StatusNext ==
    \/ GameConnect
    \/ GameConnectOpen
    \/ GameConnectHandshake
    \/ GameConnectFlag
    \/ GameConnectStart
    \/ GameDisconnect
    \/ GameCloseStop
    \/ GameCloseFlag
    \/ GameCloseFrame
    \/ GameCloseSocket
    \/ GameCloseNone
    \/ GameDisconnectEnds
    \/ \E o \in Objects : GameLoopTop(o)
    \/ \E o \in Objects : GameLoopRecv(o)
    \/ \E o \in Objects : GameLoopWake(o)
    \/ \E o \in Objects : GameLoopExit(o)

SpecStatus == Init /\ [][StatusNext]_vars
(***************************************************************************)
(* Properties of the codec.                                                *)
(***************************************************************************)
FullyFed == cphase = "decoded" /\ ccut = Len(cframe)

\* C1: decoding the frame _send_frame builds for a text payload gives back
\* exactly that payload and consumes exactly the encoded length, leaving an
\* empty buffer, in each of the four length classes.
C1_RoundTrip ==
    (FullyFed /\ cside = "client" /\ copcode = OP_TEXT /\ ctrail = <<>> /\ cpasses = 1)
        => /\ cres.kind = "frame"
           /\ cres.payload = cdata
           /\ cres.consumed = Len(cframe)
           /\ cbuf = <<>>

C1_Witness ==
    /\ FullyFed /\ cside = "client" /\ copcode = OP_TEXT /\ ctrail = <<>> /\ cpasses = 1
    /\ Len(cdata) = 127
    /\ cres.payload = cdata
    /\ \E i \in 1..4 : cframe[8 + i] # cdata[i]

\* C2: with a strict prefix of a valid frame (masked or not, any length
\* class) in the buffer, the decode pass breaks: nothing is consumed, the
\* buffer is unchanged, and no frame is handed on to be handled.
C2_PartialBufferSafe ==
    (cphase = "decoded" /\ ccut < Len(cframe))
        => /\ cres.kind = "need"
           /\ cres.consumed = 0
           /\ cbuf = Take(cframe, ccut)
           /\ cframes = 0
           /\ FrameAction(cres) = "break"

C2_Witness ==
    /\ cphase = "decoded" /\ cside = "client" /\ Len(cdata) = 126
    /\ ccut = 6                       \* the mask key is cut in two
    /\ cres.kind = "need" /\ cbuf = Take(cframe, 6)

\* C3: with one complete frame followed by a strict prefix of a next frame
\* in the buffer, exactly one frame is extracted and the buffer afterwards
\* is exactly the trailing prefix.
C3_TrailingPrefixUntouched ==
    (FullyFed /\ ctrail # <<>>)
        => /\ cframes = 1
           /\ cbuf = ctrail
           /\ cpasses \in {1, 2}
           /\ cpasses = 1 => (cres.kind = "frame" /\ cres.consumed = Len(cframe)
                              /\ cres.payload = cdata)
           /\ cpasses = 2 => cres.kind = "need"

C3_Witness ==
    /\ FullyFed /\ ctrail = <<137, 126, 0>> /\ cpasses = 2
    /\ cframes = 1 /\ cbuf = ctrail /\ Len(cdata) = 127

\* C5: the 7-bit length field is n for n <= 125, 126 followed by n in two
\* big-endian bytes for 126 <= n <= 65535, and 127 followed by n in eight
\* big-endian bytes above; the decoder computes payload length n in every
\* class.
C5_LengthEncoding ==
    LET n == Len(cdata) IN
    /\ (cside = "client" /\ cphase # "start") =>
        /\ cframe[2] >= 128
        /\ n <= 125 => (cframe[2] % 128 = n /\ Len(cframe) = 6 + n)
        /\ (126 <= n /\ n <= 65535) =>
              /\ cframe[2] % 128 = 126
              /\ 256 * cframe[3] + cframe[4] = n
              /\ Len(cframe) = 8 + n
        /\ n > 65535 =>
              /\ cframe[2] % 128 = 127
              /\ \A i \in 3..6 : cframe[i] = 0
              /\ 16777216 * cframe[7] + 65536 * cframe[8] + 256 * cframe[9]
                    + cframe[10] = n
              /\ Len(cframe) = 14 + n
    /\ (FullyFed /\ cpasses = 1) => (cres.kind = "frame" /\ cres.payload_len = n)

C5_Witness ==
    /\ FullyFed /\ cpasses = 1 /\ cside = "client"
    /\ Len(cdata) = 126 /\ cframe[2] = 254 /\ cframe[3] = 0 /\ cframe[4] = 126
    /\ cres.payload_len = 126

(***************************************************************************)
(* Properties of the connection.                                           *)
(***************************************************************************)
\* the bytes of a run of pieces, in the order they were written
RECURSIVE Flat(_)
Flat(ps) == IF ps = <<>> THEN <<>> ELSE Head(ps).bytes \o Flat(Tail(ps))

\* the frames begun in a run of pieces, whole, in the order they were begun
RECURSIVE Whole(_)
Whole(ps) ==
    IF ps = <<>> THEN <<>>
    ELSE (IF Head(ps).first THEN Head(ps).frame ELSE <<>>) \o Whole(Tail(ps))

\* the frames begun on the wire
Begun == {p \in UNION {{wire[s][i] : i \in 1..Len(wire[s])} : s \in Sockets} : p.first}

HeaderLen(p) == Len(p.frame) - Len(p.data)

WellMasked(p) ==
    /\ BitAnd(p.frame[1], FIN_BIT) = FIN_BIT
    /\ BitAnd(p.frame[1], 15) = p.opcode
    /\ BitAnd(p.frame[2], MASK_BIT) = MASK_BIT
    /\ Len(p.mask) = 4
    /\ Slice(p.frame, HeaderLen(p) - 4, HeaderLen(p)) = p.mask
    /\ \A i \in 1..Len(p.data) :
          p.frame[HeaderLen(p) + i] = BitXor(p.data[i], p.mask[((i - 1) % 4) + 1])
    /\ LET res == DecodeStep(p.frame)
       IN  res.kind = "frame" /\ res.masked /\ res.payload = p.data /\ res.rest = <<>>

\* C4: every frame _send_frame puts on a socket, for send(), for the pong
\* reply and for close(), has the FIN bit and the mask bit set, carries the
\* four bytes of the key behind the length, and its payload is the data XORed
\* with key[i mod 4]; unmasking it once gives the data back.
C4_EveryFrameMasked ==
    \A p \in Begun :
        /\ p.by \in {"send", "pong", "close"}
        /\ p.by = "send" => p.opcode = OP_TEXT
        /\ p.by = "pong" => p.opcode = OP_PONG
        /\ p.by = "close" => p.opcode = OP_CLOSE /\ p.data = <<>>
        /\ WellMasked(p)

C4_Witness ==
    \E p, q \in Begun :
        /\ p.by = "send" /\ p.data = <<104, 105>>
        /\ q.by = "pong" /\ q.data = <<112>>
        /\ Slice(q.frame, 6, 7) # q.data

\* the variables of the object and of its sockets, apart from what a call
\* returns
ObjectState == <<sock, connected, stop, nsock, sstate, closes, peer, inbox, wire,
                 wr, lpc, lbuf, delivered>>

\* C6: send() goes on to write only if self._connected is set.  The flag is
\* clear before the first connect(), after a failed handshake, after close()
\* and once the receive thread has ended; a send() that finds it clear
\* returns the not-connected error, writes nothing and leaves the object and
\* its sockets as they are.
C6_SendOnlyWhenOpen ==
    /\ [](nsock = 0 => ~connected)
    /\ [](\A c \in MainCallers :
            (pc[c] = "idle" /\ ret[c] \in {Ret("connect", "HandshakeFailed"),
                                           Ret("connect", "Timeout"),
                                           Ret("close", "ok")}) => ~connected)
    /\ []((nsock > 0 /\ lpc[IF nsock > 0 THEN nsock ELSE 1] = "done") => ~connected)
    /\ [][\A c \in MainCallers :
            (SendCheck(c) /\ ~connected)
                => /\ ret'[c] = Ret("send", "NotConnected")
                   /\ pc'[c] = "idle"
                   /\ UNCHANGED ObjectState]_vars

C6_Witness ==
    /\ ret[1] = Ret("send", "NotConnected") /\ pc[1] = "idle"
    /\ sock # 0 /\ sstate[1] = "open" /\ lpc[1] = "done"
    /\ wire[1] = <<>>

\* C7 as claimed: the bytes on a socket that is open and whose connection is
\* not broken are, whenever no sendall is unfinished, whole frames one after
\* the other.
C7_WholeFramesOnWire ==
    \A s \in Sockets :
        (Pending(s) = {} /\ sstate[s] = "open" /\ peer[s] # "gone")
            => Flat(wire[s]) = Whole(wire[s])

CloseStep(c) ==
    \/ CloseCall(c)
    \/ CloseCheck(c)
    \/ CloseFrame(c)
    \/ CloseRest(c)
    \/ CloseSocket(c)
    \/ CloseNone(c)

\* the object after close(): no socket, not connected, stop event set
Released == sock = 0 /\ ~connected /\ stop

\* C8: close() returns normally from every state, with self._socket None,
\* the socket it held closed and the object not connected; the object is
\* then released until the next connect(), and a close() of a released
\* object changes nothing of the object or its sockets and writes nothing,
\* whatever the receive thread is doing.
C8_CloseIdempotent ==
    /\ [](\A c \in MainCallers :
            (pc[c] = "idle" /\ ret[c].op = "close") => (ret[c].out = "ok" /\ Released))
    /\ [][\A c \in MainCallers :
            /\ (InClose(c) /\ pc'[c] = "idle")
                  => /\ ret'[c] = Ret("close", "ok")
                     /\ sock' = 0 /\ ~connected' /\ stop'
                     /\ sock # 0 => sstate'[sock] = "closed"
            /\ (CloseStep(c) /\ Released) => UNCHANGED ObjectState]_vars

C8_Witness ==
    /\ pc[1] = "k_chk" /\ ret[1] = Ret("close", "ok")
    /\ Released /\ sstate[1] = "closed" /\ closes[1] = 1
    /\ lpc[1] = "recv"

\* C9 as claimed: a close frame is on a socket only from a close() that was
\* called with the object connected.
C9_CloseFrameOnlyWhenOpen ==
    \A p \in Begun : p.by = "close" => p.open

\* C10 as claimed: no socket is closed twice, and the socket of a connect()
\* that failed in the handshake, and the socket of a receive thread that
\* has ended, is closed.
C10_ReleasedExactlyOnce ==
    /\ \A s \in Sockets : closes[s] <= 1
    /\ \A s \in Sockets : lpc[s] = "done" => sstate[s] = "closed"
    /\ \A c \in MainCallers :
          (pc[c] = "idle" /\ ret[c] \in {Ret("connect", "HandshakeFailed"),
                                         Ret("connect", "Timeout")})
              => sstate[nsock] = "closed"

(***************************************************************************)
(* Properties of connect() and of the receive thread.                      *)
(***************************************************************************)
ConnectErrors == {"ConnectFailed", "HandshakeFailed", "Timeout"}

ConnectStep(c) ==
    \/ ConnectCall(c)
    \/ ConnectHandshake(c)
    \/ ConnectFlag(c)
    \/ ConnectStart(c)

StatusLine101(reply) ==
    /\ Len(reply) >= 13
    /\ SubSeq(reply, 1, 5) = <<72, 84, 84, 80, 47>>
    /\ reply[9] = 32
    /\ SubSeq(reply, 10, 12) = Code101
    /\ reply[13] = 32

HsEnded == hphase \in {"failed", "open", "recv", "decode", "idle"}

\* C12 as claimed: connect() succeeds only on a response whose status line
\* carries 101; a complete response with another status line ends in the
\* handshake error.
C12_StatusLineDecides ==
    /\ hout = "ok" => StatusLine101(hreply)
    /\ (HsEnded /\ Contains(hreply, Terminator) /\ ~StatusLine101(hreply)
            /\ hextra = <<>>)
          => hout = "HandshakeRejected"

\* C13: connect() appends every chunk to the response in order, goes on
\* reading exactly until the terminator is in the response, wherever the
\* chunks are cut, and ends with the closed-during-handshake error only when
\* the stream ended with all its bytes read and no terminator among them.
C13_ReadUntilTerminator ==
    /\ hphase \in {"reading", "failed", "open"}
          => hresponse \o hstream = hreply \o hextra
    /\ hphase = "reading" /\ hresponse # <<>>
          => ~Contains(Take(hresponse, Len(hresponse) - Len(hchunk)), Terminator)
    /\ hout \in {"ok", "HandshakeRejected", "UnicodeDecodeError"}
          => /\ Contains(hresponse, Terminator)
             /\ ~Contains(Take(hresponse, Len(hresponse) - Len(hchunk)), Terminator)
    /\ hout = "ClosedDuringHandshake"
          => hcloses /\ hstream = <<>> /\ ~Contains(hreply \o hextra, Terminator)
    /\ hout = "Timeout"
          => ~hcloses /\ hstream = <<>> /\ ~Contains(hreply \o hextra, Terminator)

C13_Witness ==
    /\ hout = "ok" /\ hreply = Reply101
    /\ hchunk = <<13, 10>>
    /\ hresponse = Reply101

\* C14 as claimed: a text frame the server sends behind its 101 response is
\* delivered, however the reads are cut.
C14_BytesBehindTerminatorKept ==
    (hphase \in {"failed", "idle"} /\ hreply = Reply101 /\ hextra # <<>>)
        => /\ hout = "ok"
           /\ hdelivered = <<<<111, 107>>>>

\* the frame the next pass of thread l takes from its buffer has opcode op
FrameAt(l, op) ==
    /\ lpc[l] = "decode"
    /\ DecodeStep(lbuf[l]).kind = "frame"
    /\ DecodeStep(lbuf[l]).opcode = op

Last(s) == s[Len(s)]

\* that the step begins one frame on socket s: one piece more, or the piece
\* alone where the socket was between frames
BeginsFrame(s) ==
    /\ wire'[s] # <<>>
    /\ Last(wire'[s]).first
    /\ \/ wire'[s] = Append(wire[s], Last(wire'[s]))
       \/ wire'[s] = <<Last(wire'[s])>> /\ Pending(s) = {}
    /\ \A t \in Sockets \ {s} : wire'[t] = wire[t]

C16_CloseStopsLoop ==
    [][\A l \in Sockets :
         /\ (LoopDecode(l) /\ FrameAt(l, OP_CLOSE)) =>
               /\ ~connected'
               /\ lpc'[l] = "top"
               /\ lbuf'[l] = DecodeStep(lbuf[l]).rest
               /\ UNCHANGED <<delivered, wire, wr>>
         /\ (LoopTop(l) /\ ~connected) =>
               /\ lpc'[l] = "exit"
               /\ lbuf'[l] = lbuf[l]
               /\ delivered'[l] = <<>>
         /\ lpc[l] \in {"exit", "done"} =>
               /\ lpc'[l] \in {"exit", "done"}
               /\ delivered'[l] = delivered[l]
               /\ lbuf'[l] \in {lbuf[l], <<>>}]_vars

C16_Witness ==
    /\ lpc[1] = "exit" /\ ~connected /\ ~stop /\ sock = 1 /\ peer[1] = "ws"
    /\ lbuf[1] = ServerFrame(TRUE, OP_TEXT, <<111, 107>>)
    /\ delivered[1] = <<>>

\* C17 as claimed: the pass that takes the server's close frame from the
\* buffer of an open connection begins a close frame on the socket.
C17_CloseFrameAnswered ==
    [][\A l \in Sockets :
         (LoopDecode(l) /\ FrameAt(l, OP_CLOSE) /\ connected /\ sock # 0)
            => /\ BeginsFrame(sock)
               /\ BitAnd(Last(wire'[sock]).frame[1], 15) = OP_CLOSE]_vars


(***************************************************************************)
(* Delivery of text frames by the receive thread (SpecBurst)               *)
(***************************************************************************)
\* the messages the frames of a run make up under RFC 6455 fragmentation:
\* the payloads of a frame with FIN clear and of the continuation frames
\* behind it, up to the one with FIN set, are one message
RECURSIVE Assembled(_, _, _)
Assembled(run, open, part) ==
    IF run = <<>> THEN <<>>
    ELSE LET f == run[1] IN
         IF f[2] = OP_CLOSE THEN <<>>
         ELSE IF f[2] = OP_TEXT /\ f[1] THEN <<f[3]>> \o Assembled(Tail(run), FALSE, <<>>)
         ELSE IF f[2] = OP_TEXT THEN Assembled(Tail(run), TRUE, f[3])
         ELSE IF f[2] = OP_CONT /\ open /\ f[1]
              THEN <<part \o f[3]>> \o Assembled(Tail(run), FALSE, <<>>)
         ELSE IF f[2] = OP_CONT /\ open THEN Assembled(Tail(run), TRUE, part \o f[3])
         ELSE Assembled(Tail(run), open, part)

\* the payloads of the text frames of a run in front of its first close frame
RECURSIVE TextsOf(_)
TextsOf(run) ==
    IF run = <<>> THEN <<>>
    ELSE IF run[1][2] = OP_CLOSE THEN <<>>
    ELSE IF run[1][2] = OP_TEXT THEN <<run[1][3]>> \o TextsOf(Tail(run))
    ELSE TextsOf(Tail(run))

\* the callbacks _handle_message makes for a sequence of messages
RECURSIVE CallbacksOf(_)
CallbacksOf(calls) ==
    IF calls = <<>> THEN <<>>
    ELSE IF HandlerOf(calls[1]) \in {"none", "raise"} THEN CallbacksOf(Tail(calls))
    ELSE <<HandlerOf(calls[1])>> \o CallbacksOf(Tail(calls))

IsPrefix(s, t) == Len(s) <= Len(t) /\ s = Take(t, Len(s))

\* every frame sent has been read and decoded, and no read or write failed
Drained ==
    /\ bphase \in {"top", "recv", "exit", "done"}
    /\ breads > 0
    /\ bstream = <<>>
    /\ blater = <<>>
    /\ bcause = "none"

\* C18 as claimed: on_message is only ever called with complete messages: a
\* text frame with FIN clear is held back and delivered together with its
\* continuation frames as one message when the frame with FIN set arrives.
C18_OnlyCompleteMessages ==
    /\ IsPrefix(bcalls, Assembled(bsent, FALSE, <<>>))
    /\ Drained => bcalls = Assembled(bsent, FALSE, <<>>)

\* C19: the on_message calls are the text frames sent, once each and in wire
\* order, each dispatched to the handler of its type; the thread does not go
\* back to reading before every frame the reads brought, be it one read or
\* two, is decoded and delivered.
C19_OncePerFrameInOrder ==
    /\ IsPrefix(bcalls, TextsOf(bsent))
    /\ bhandled = CallbacksOf(bcalls)
    /\ Drained => bcalls = TextsOf(bsent)

C19_Witness ==
    /\ bsent = <<<<TRUE, OP_TEXT, MoveDoc>>, <<TRUE, OP_TEXT, ErrorDoc>>>>
    /\ breads = 1
    /\ bphase = "top"
    /\ bcalls = <<MoveDoc, ErrorDoc>>
    /\ bhandled = <<"on_opponent_move", "on_error">>

\* C20 as claimed: when a read or write on the stream fails, the receive thread
\* leaves its loop, the connection is no longer open, and exactly one error
\* callback has been made since the failure.
C20_ErrorCallbackOnce ==
    (bphase = "done" /\ bcause \in {"eof", "reset", "write"})
        => /\ ~bconnected
           /\ Len(bhandled) = bmark + 1
           /\ bhandled[Len(bhandled)] = "on_error"

(***************************************************************************)
(* Failures in the receive thread (SpecBurst)                              *)
(***************************************************************************)
\* the failures after which the thread cannot go on
FatalCauses == {"eof", "reset", "write", "decode", "dispatch", "callback"}

\* C21: no failure in the receive thread leaves it as an exception: a failed
\* read, a failed write of a pong, a payload that is not UTF-8 and an error
\* raised while a message is handled all end the loop, and the thread ends
\* behind line 229 with the connected flag clear.
C21_FailuresEndTheLoop ==
    /\ bphase # "raised"
    /\ bcause \in FatalCauses => bphase \in {"exit", "done"}
    /\ bphase = "done" => ~bconnected

C21_Witness ==
    /\ bphase = "done"
    /\ bcause = "callback"
    /\ bhandled # <<>>
    /\ ~bconnected

\* the frames of a run in front of its first frame with a reserved opcode
RECURSIVE BeforeMalformed(_)
BeforeMalformed(run) ==
    IF run = <<>> THEN <<>>
    ELSE IF run[1][2] = OP_RESERVED THEN <<>>
    ELSE <<run[1]>> \o BeforeMalformed(Tail(run))

\* C22 as claimed: a frame with an opcode the loop cannot parse closes the
\* connection: no frame behind it is handled, and once it is decoded the
\* connected flag is clear.
C22_MalformedFrameCloses ==
    /\ IsPrefix(bcalls, TextsOf(BeforeMalformed(bsent)))
    /\ (Drained /\ BeforeMalformed(bsent) # bsent) => ~bconnected

(***************************************************************************)
(* Dispatch of messages (SpecDispatch, SpecBurst)                          *)
(***************************************************************************)
\* the routing table of the dispatcher: type and callback
Routes ==
    {<<TypeGameUpdate, "on_game_update">>, <<TypeMove, "on_opponent_move">>,
     <<TypePlayerJoined, "on_player_joined">>,
     <<TypeResignation, "on_resignation">>, <<TypeError, "on_error">>}

\* the callback of the route whose type is exactly that of the message
RouteOf(message) ==
    LET data == JsonLoads(message)
        hits == {r \in Routes : data.has_type /\ r[1] = data.type}
    IN  IF hits = {} THEN "none" ELSE (CHOOSE r \in hits : TRUE)[2]

Expected(message) ==
    LET data == JsonLoads(message)
    IN  IF data.kind # "object" \/ ~data.has_type THEN "on_error"
        ELSE RouteOf(message)

RECURSIVE ExpectedCallbacks(_)
ExpectedCallbacks(calls) ==
    IF calls = <<>> THEN <<>>
    ELSE IF Expected(calls[1]) = "none" THEN ExpectedCallbacks(Tail(calls))
    ELSE <<Expected(calls[1])>> \o ExpectedCallbacks(Tail(calls))

\* C24 as claimed: a message without a route calls nothing, a message that is
\* not a JSON object with a type calls the error callback only, and neither
\* ends the receive loop.
C24_UndispatchableDropped ==
    /\ bcause # "dispatch"
    /\ bhandled = ExpectedCallbacks(bcalls)

(***************************************************************************)
(* Read timeouts and the receive buffer (SpecBurst)                        *)
(***************************************************************************)
\* C28: a recv that raises socket.timeout changes nothing but the position of
\* the thread, which goes back to the test of the loop: the connected flag,
\* the buffer, the callbacks made and the frames written stay as they are.
C28_ReadTimeoutHarmless ==
    [][(BurstRecv /\ bidle')
          => /\ bphase' = "top"
             /\ UNCHANGED <<bconnected, bbuf, bcalls, bhandled, bpongs, bcause,
                            bstream, blater>>]_vars

C28_Witness ==
    /\ bidle
    /\ bphase = "recv"
    /\ bconnected
    /\ bbuf # <<>>
    /\ bcalls # <<>>

\* the bytes of the frames sent that are not decoded yet are those of the
\* frames from number n + 1 on
Undecoded(n) == bbuf \o bstream \o blater = RunBytes(Drop(bsent, n))

C29_ConnectFailureDegrades ==
    /\ [](gphase # "crashed")
    /\ [](gexc # "none" => (gwarned /\ gphase \in {"loop", "playing"}))
    /\ [][gexc' # gexc => gphase' = "loop"]_vars

C29_Witness ==
    /\ gphase = "playing"
    /\ gexc = "socket.timeout"
    /\ hout = "Timeout"
    /\ gwarned

(***************************************************************************)
(* Threads and sockets of one connection object (SpecLife, SpecLifeFair)   *)
(***************************************************************************)
\* the receive threads that wait in recv on socket s
ReadersOf(s) == {t \in LifeThreads : lthr[t].pc = "recv" /\ lthr[t].rd = s}

\* C25 as claimed: whatever connect() and close() calls were made on the
\* object, no socket has two receive threads waiting in recv on it.
C25_OneReaderPerStream ==
    \A s \in 1..MaxConnects : Cardinality(ReadersOf(s)) <= 1

CloseReturned == lcaller = "idle" /\ llast = "close"

\* C26: close() sets the stop event and leaves the receive threads alone;
\* once it has returned, every receive thread that still runs ends, unless
\* connect() is called again.
C26_StopEndsTheLoop ==
    /\ [](CloseReturned => lstop)
    /\ [][(lcaller \in {"x_flag", "x_sock", "x_none"} /\ lcaller' # lcaller)
            => UNCHANGED lthr]_vars
    /\ \A t \in LifeThreads :
         (CloseReturned /\ Running(t)) ~> (lthr[t].pc = "done" \/ ~CloseReturned)

C26_Witness ==
    /\ CloseReturned
    /\ lstop
    /\ \E t \in LifeThreads : lthr[t].pc = "recv" /\ lthr[t].rd \in lclosed

(***************************************************************************)
(* Termination of connect() (SpecWaitFair)                                 *)
(***************************************************************************)
\* C27 as claimed: connect() ends, with success or with an error, whatever
\* the server does.
C27_ConnectTerminates == <>(wphase \in {"returned", "raised"})

(***************************************************************************)
(* Independence of the reads (SpecBurst)                                   *)
(***************************************************************************)
\* lines 169-220 run on a buffer that holds all bytes of the frames sent, the
\* read behind it bringing nothing more: the on_message calls and the pongs
\* written, in order.  Frame number fail.at, if any, is the one whose
\* handling raises; on_message has been entered when it is the callback that
\* raises, and nothing is handled behind it.
RECURSIVE OneRead(_, _, _)
OneRead(buffer, k, fail) ==
    LET res == DecodeStep(buffer)
        act == FrameAction(res)
        event == IF act = "message"
                 THEN <<[kind |-> "message", data |-> res.payload]>>
                 ELSE IF act = "pong"
                 THEN <<[kind |-> "pong", data |-> res.payload]>>
                 ELSE <<>>
    IN  IF NextPass(act) # "decode" THEN <<>>
        ELSE IF fail.at = k
        THEN IF fail.cause \in {"dispatch", "callback"} THEN event ELSE <<>>
        ELSE event \o OneRead(res.rest, k + 1, fail)

\* every byte sent has been read, and the thread waits for more or has ended
Quiescent ==
    /\ breads > 0
    /\ bstream = <<>>
    /\ blater = <<>>
    /\ bphase \in {"recv", "done"}

\* C31 as claimed: however the bytes of the frames sent are split into reads,
\* and whatever read timeouts lie between them, once they are all read the
\* on_message calls and the pongs written are those of the run in which one
\* read brings them all.
C31_ChunkingIndependence ==
    Quiescent => bevents = OneRead(RunBytes(bsent), 1, bfirst)

(***************************************************************************)
(* The start of the receive thread (Spec)                                  *)
(***************************************************************************)
\* C32: the receive thread of a connection is started in the step in which
\* its connect() returns successfully, behind the handshake, and in no other;
\* until then that thread reads nothing, decodes nothing and calls nothing:
\* its buffer is empty and no on_message call is made.
C32_NoCallbackBeforeOpen ==
    /\ [](\A l \in Sockets :
            lpc[l] = "off" => (lbuf[l] = <<>> /\ delivered[l] = <<>>))
    /\ [][\A l \in Sockets :
            /\ (lpc[l] = "off" /\ lpc'[l] # "off")
                  => /\ l = nsock
                     /\ pc[1] = "c_start"
                     /\ pc'[1] = "idle"
                     /\ ret'[1] = Ret("connect", "ok")
                     /\ lpc'[l] = "top"
            /\ (pc[1] # "c_start" /\ pc'[1] = "c_start")
                  => (pc[1] = "c_flag" /\ connected')
            /\ lpc[l] = "off"
                  => ~(LoopTop(l) \/ LoopRecv(l) \/ LoopDecode(l)
                         \/ LoopPongRest(l) \/ LoopExit(l))]_vars

C32_Witness ==
    /\ pc[1] = "c_start"
    /\ connected
    /\ peer[1] = "ws"
    /\ lpc[1] = "off"
    /\ lbuf[1] = <<>>
    /\ delivered[1] = <<>>

(***************************************************************************)
(* Pong frames of the server (SpecBurst)                                   *)
(***************************************************************************)
\* the next pass of the inner loop takes a pong frame from the buffer
PongNext ==
    /\ bphase = "decode"
    /\ DecodeStep(bbuf).kind = "frame"
    /\ DecodeStep(bbuf).opcode = OP_PONG

\* a run without its pong frames
RECURSIVE WithoutPongs(_)
WithoutPongs(run) ==
    IF run = <<>> THEN <<>>
    ELSE IF run[1][2] = OP_PONG THEN WithoutPongs(Tail(run))
    ELSE <<run[1]>> \o WithoutPongs(Tail(run))

\* C33: the pass that takes a pong frame from the buffer removes its bytes
\* and nothing else happens: the connected flag stays set, no callback is
\* made, nothing is written, and the inner loop goes on with the bytes behind
\* it.  Where nothing fails, what a run of frames brings about is what the
\* same run without its pong frames brings about.
C33_PongIgnored ==
    /\ [][(BurstDecode /\ PongNext)
            => /\ bbuf' = DecodeStep(bbuf).rest
               /\ Len(bbuf') < Len(bbuf)
               /\ bphase' = "decode"
               /\ bconnected'
               /\ UNCHANGED <<bconnected, bcalls, bhandled, bpongs, bevents,
                              bcause, bfirst>>]_vars
    /\ []((Quiescent /\ bcause = "none")
            => bevents = OneRead(RunBytes(WithoutPongs(bsent)), 1,
                                 [at |-> 0, cause |-> "none"]))

C33_Witness ==
    /\ bsent = <<<<TRUE, OP_PONG, <<>>>>, <<TRUE, OP_TEXT, MoveDoc>>>>
    /\ breads = 1
    /\ bphase = "recv"
    /\ bconnected
    /\ bbuf = <<>>
    /\ bcalls = <<MoveDoc>>
    /\ bhandled = <<"on_opponent_move">>
    /\ bpongs = <<>>

(***************************************************************************)
(* Callbacks and close() (Spec)                                            *)
(***************************************************************************)
\* close() has been called and has returned, and connect() has not been
\* called since
Closed ==
    /\ stop
    /\ \A c \in Callers : ~InClose(c) /\ ~InConnect(c)

\* C34 as claimed: once close() has returned, no receive thread makes an
\* on_message call any more.
C34_NoCallbackAfterClose ==
    [][\A l \in Sockets :
          Closed => Len(delivered'[l]) <= Len(delivered[l])]_vars

(***************************************************************************)
(* What ends a connection (SpecLife)                                       *)
(***************************************************************************)
\* C35 as claimed: the connected flag set by connect() is cleared only once
\* close() has been called (by it, line 100, or by a thread its stop event
\* has stopped), by a close frame received on the socket of the connection, or by
\* the exit of a receive thread that a failed read on the socket of the
\* connection has stopped; a thread that ends late, stopped by an earlier
\* close() or by the failure of an earlier socket, leaves it set.
C35_OpenUntilEnded ==
    [][(lconnected /\ ~lconnected')
          => \/ lcaller = "x_flag"
             \/ \E t \in LifeThreads :
                  /\ LifeLoopWake(t)
                  /\ lthr[t].rd = lowner
             \/ \E t \in LifeThreads :
                  /\ LifeLoopExit(t)
                  /\ lthr[t].rd = lowner]_vars

(***************************************************************************)
(* send() racing close() (SpecRace)                                        *)
(***************************************************************************)
\* C36 as claimed: a send() that has passed the test of line 118 writes its
\* frame to a socket that is there and not closed, also when close() runs in
\* another thread meanwhile; it never ends with the error of a missing or a
\* closed socket.
C36_SendRacingClose ==
    /\ [](\A c \in Callers :
            ret[c].op = "send" => ret[c].out # "AttributeError")
    /\ [][\A c \in Callers :
            /\ SendFrame(c)
                  => IF sock = 0 THEN FALSE ELSE sstate[sock] = "open"
            /\ SendRest(c)
                  => sstate[wr[CallerW(c)].sk] = "open"]_vars

(***************************************************************************)
(* The flag and the socket (Spec)                                          *)
(***************************************************************************)
\* C37: with connect(), send() and close() called one after the other from
\* one thread and the receive thread running beside it, whenever
\* self._connected is set self._socket holds a socket, and close() has not
\* closed that socket.
C37_ConnectedHasSocket ==
    connected => (sock # 0 /\ sstate[IF sock = 0 THEN 1 ELSE sock] = "open")

C37_Witness ==
    /\ connected
    /\ sock = 1
    /\ sstate[1] = "open"
    /\ pc[1] = "s_frame"
    /\ lpc[1] = "decode"

(***************************************************************************)
(* Errors while a text message is handled (SpecBurst)                      *)
(***************************************************************************)
\* a payload that is not UTF-8 (line 213), the dispatcher raising (line 279)
\* and a callback raising (line 215)
MessageErrors == {"decode", "dispatch", "callback"}

\* C38: an error raised while a text message is handled ends the loop: the
\* thread goes to line 229 and ends there with the connected flag clear, the
\* frames left in its buffer are not decoded, nothing more is called or
\* written, and the exception does not leave the thread.
C38_MessageErrorEndsConnection ==
    /\ [](bcause \in MessageErrors => bphase \in {"exit", "done"})
    /\ []((bcause \in MessageErrors /\ bphase = "done") => ~bconnected)
    /\ [](bphase # "raised")
    /\ [][(bcause \in MessageErrors)
            => (UNCHANGED <<bbuf, bframes, bcalls, bhandled, bpongs, bevents,
                            bcause>>)]_vars
    /\ [][(bcause \notin MessageErrors /\ bcause' \in MessageErrors)
            => /\ BurstDecode
               /\ FrameAction(DecodeStep(bbuf)) = "message"
               /\ bphase' = "exit"
               /\ bpongs' = bpongs]_vars

C38_Witness ==
    /\ bsent = <<<<TRUE, OP_TEXT, BadUtf8>>, <<TRUE, OP_TEXT, MoveDoc>>>>
    /\ bphase = "done"
    /\ bcause = "decode"
    /\ ~bconnected
    /\ bbuf = RunBytes(<<<<TRUE, OP_TEXT, MoveDoc>>>>)
    /\ bcalls = <<>>
    /\ bhandled = <<>>

(***************************************************************************)
(* The status flag of GameWebSocket (SpecStatus)                           *)
(***************************************************************************)
\* the calling thread is in no call, and its last call ended as said
Ended(how) == kcaller = "idle" /\ klast \in how

\* C39: GameWebSocket.connected is the connected flag of the object in
\* self._ws, and false without one.  That flag is set by a successful
\* handshake of that object only and cleared by its close(), by a close frame
\* and by the end of its receive thread only; so the property is false before
\* connect(), after a connect() that failed, after disconnect() and once the
\* receive thread has ended, and where it is true the socket is open.
\* disconnect() never raises, and without an object in self._ws it does
\* nothing.
C39_StatusFlag ==
    /\ [](kn = 0 => ~GameConnected)
    /\ [](Ended(HandshakeExceptions) => ~GameConnected)
    /\ [](Ended({"disconnect"}) => (kws = 0 /\ ~GameConnected))
    /\ []((kws # 0 /\ kobj[IF kws = 0 THEN 1 ELSE kws].thr = "done")
            => ~GameConnected)
    /\ [](GameConnected
            => /\ kobj[kws].sock = "open"
               /\ kobj[kws].thr # "done"
               /\ kobj[kws].thr = "off" => kcaller = "c_start")
    /\ [](klast # "raised")
    /\ [][\A o \in Objects :
            /\ (~kobj[o].connected /\ kobj'[o].connected)
                  => (GameConnectFlag /\ o = kws)
            /\ (kobj[o].connected /\ ~kobj'[o].connected)
                  => \/ GameCloseFlag /\ o = kws
                     \/ GameLoopWake(o)
                     \/ GameLoopExit(o)]_vars
    /\ [][(GameDisconnect /\ kws = 0)
            => (kcaller' = "idle" /\ UNCHANGED <<kws, kn, kobj>>)]_vars

C39_Witness ==
    /\ Ended({"connect"})
    /\ kws = 1
    /\ kobj[1].thr = "done"
    /\ kobj[1].sock = "open"
    /\ ~kobj[1].stop
    /\ ~GameConnected
=============================================================================
